---- MODULE Spec2Model ----
(***************************************************************************)
(* Model of the MCP-logger data-access layer (src/src/db.py and            *)
(* src/src/main.py): the SQLite store with its eight tables, the           *)
(* per-call connection with Python's implicit transactions, and the tool   *)
(* handlers that read and write the store.                                 *)
(*                                                                         *)
(* Representation.                                                         *)
(*  - A store state is a record with one set of rows per table plus `seq`, *)
(*    the sqlite_sequence counters of the AUTOINCREMENT keys.              *)
(*  - A connection is a record: `disk` is the committed store it sees,     *)
(*    `work` its own view including uncommitted writes, `rowid` the        *)
(*    connection's last insert rowid, `err` the exception that is          *)
(*    propagating ("none" when none), `lock` whether it holds the write    *)
(*    lock, `closed` whether conn.close() was called.                      *)
(*  - Free text that is matched by LIKE or serialised (notes, workout_type,*)
(*    tags) is a sequence of one-character strings; SQL NULL / Python None *)
(*    is NoneText for such text, None for atomic strings, NoneInt for      *)
(*    numbers.                                                             *)
(*  - A calendar date "YYYY-MM-DD" is its day number; a stored date_time   *)
(*    text "YYYY-MM-DDTHH:MM:SS[.ffffff][+HH:MM]" is the sequence of its   *)
(*    fixed-width fields <<day, second-of-day>> followed by the optional   *)
(*    suffix, and text comparison is lexicographic comparison of these     *)
(*    sequences (a proper prefix is smaller), as SQLite compares TEXT.     *)
(*  - Columns that are only carried through and that no handler inspects   *)
(*    (exercise category/notes, the remaining numeric set columns, the     *)
(*    descriptive meal_item columns) are left out of the rows.             *)
(***************************************************************************)
EXTENDS Integers, Sequences, FiniteSets, TLC

\* db, leaked, last and pc are what the program holds and what a caller
\* sees; assigned is the record of the positions that exercises and sets
\* have held so far, which no handler reads
VARIABLES db, leaked, last, pc, assigned

vars == <<db, leaked, last, pc, assigned>>

-----------------------------------------------------------------------------
(* Bounds *)

MaxId == 2          \* largest AUTOINCREMENT key a table hands out
MaxLeaked == 1      \* most connections left open at one time
MaxFault == 3       \* latest write statement at which the engine may fail
NumProcs == 2       \* callers that run add_set concurrently
MaxLimit == 2       \* largest limit given to search_logs

-----------------------------------------------------------------------------
(* Values *)

None == "None"
NoneInt == -1
NoneText == <<"None">>

Tables == {"workouts", "exercises", "sets", "nutrition_days", "meals",
           "meal_items", "body_metrics", "skinfolds"}

\* 23:59:59 as a second of the day
LastSecond == 86399

\* tokens of the optional suffix of an ISO text, ordered as the characters
\* '+' < '.' are ordered
PlusSign == 1
Dot == 2

Range(s) == {s[i] : i \in DOMAIN s}

RECURSIVE SumSeq(_)
SumSeq(s) == IF s = <<>> THEN 0 ELSE Head(s) + SumSeq(Tail(s))

\* every arrangement of the finite set S as a sequence without repetition
SeqsOf(S) ==
  {f \in [1..Cardinality(S) -> S] : \A i, j \in DOMAIN f : f[i] = f[j] => i = j}

-----------------------------------------------------------------------------
(* The schema: the empty store created by _initialize_tables *)

EmptyStore ==
  [workouts |-> {}, exercises |-> {}, sets |-> {},
   nutrition_days |-> {}, meals |-> {}, meal_items |-> {},
   body_metrics |-> {}, skinfolds |-> {},
   seq |-> [t \in Tables |-> 0]]

\* key the next INSERT into an AUTOINCREMENT table receives
NextRowid(w, t) == w.seq[t] + 1

\* the sqlite_sequence counter advances whenever a key was generated, also
\* when the row is then ignored or turned into an update by ON CONFLICT
BumpSeq(w, t) == [w EXCEPT !.seq[t] = @ + 1]

-----------------------------------------------------------------------------
(* Connections and statements *)

\* sqlite3.connect + PRAGMA foreign_keys = ON.  env.fault is the number of
\* the write statement the engine fails (0: none), env.busy whether another
\* connection holds the write lock.
get_connection(d, env) ==
  [disk |-> d, work |-> d, rowid |-> 0, err |-> "none", lock |-> FALSE,
   closed |-> FALSE, opened |-> TRUE, n |-> 0,
   fault |-> env.fault, busy |-> env.busy]

\* a call that fails before it opens a connection
NoConnection(d, e) ==
  [disk |-> d, work |-> d, rowid |-> 0, err |-> e, lock |-> FALSE,
   closed |-> FALSE, opened |-> FALSE, n |-> 0, fault |-> 0, busy |-> FALSE]

\* a Python exception raised by the handler itself
Raise(c, e) == IF c.err # "none" THEN c ELSE [c EXCEPT !.err = e]

\* a variant of Execute that commits every statement as it runs
ExecuteAutocommit(c, ok, w2, rowid2) ==
  IF c.err # "none" THEN c
  ELSE IF c.busy /\ ~c.lock THEN [c EXCEPT !.err = "OperationalError"]
  ELSE IF c.n + 1 = c.fault
    THEN [c EXCEPT !.err = "OperationalError", !.n = @ + 1, !.lock = TRUE]
  ELSE IF ~ok
    THEN [c EXCEPT !.err = "IntegrityError", !.n = @ + 1, !.lock = TRUE]
  ELSE [c EXCEPT !.work = w2, !.disk = w2, !.rowid = rowid2, !.n = @ + 1]

\* cursor.execute of a write statement.  Python opens the transaction
\* implicitly; the statement takes the write lock or fails with "database is
\* locked"; the engine may fail it; a violated constraint (ok = FALSE) fails
\* it; otherwise the connection's view becomes w2 and its last insert rowid
\* rowid2.  A statement after a raised exception never runs.
Execute(c, ok, w2, rowid2) ==
  IF c.err # "none" THEN c
  ELSE IF c.busy /\ ~c.lock THEN [c EXCEPT !.err = "OperationalError"]
  ELSE IF c.n + 1 = c.fault
    THEN [c EXCEPT !.err = "OperationalError", !.n = @ + 1, !.lock = TRUE]
  ELSE IF ~ok
    THEN [c EXCEPT !.err = "IntegrityError", !.n = @ + 1, !.lock = TRUE]
  ELSE [c EXCEPT !.work = w2, !.rowid = rowid2, !.n = @ + 1, !.lock = TRUE]

\* a variant of commit that also runs while an exception propagates
commitOnError(c) == [c EXCEPT !.disk = c.work, !.lock = FALSE]

\* conn.commit()
commit(c) ==
  IF c.err # "none" THEN c ELSE [c EXCEPT !.disk = c.work, !.lock = FALSE]

\* conn.close(): reached only when no exception is propagating; what was not
\* committed is rolled back
close(c) ==
  IF c.err # "none" THEN c
  ELSE [c EXCEPT !.closed = TRUE, !.work = c.disk, !.lock = FALSE]

-----------------------------------------------------------------------------
(* Text *)

\* a variant of Lower for a LIKE that compares letters exactly
LowerNothing(ch) == ch

\* ASCII lower-casing as SQLite's LIKE and LOWER() apply it
Lower(ch) ==
  CASE ch = "A" -> "a" [] ch = "B" -> "b" [] ch = "L" -> "l" [] ch = "P" -> "p"
    [] OTHER -> ch

\* SQLite's LIKE: "%" matches any run of characters, "_" any one character,
\* every other character matches itself without regard to ASCII letter case
RECURSIVE LikeMatch(_, _)
LikeMatch(p, t) ==
  IF p = <<>> THEN t = <<>>
  ELSE IF Head(p) = "%"
    THEN \E k \in 0..Len(t) : LikeMatch(Tail(p), SubSeq(t, k + 1, Len(t)))
  ELSE IF t = <<>> THEN FALSE
  ELSE IF Head(p) = "_" THEN LikeMatch(Tail(p), Tail(t))
  ELSE Lower(Head(p)) = Lower(Head(t)) /\ LikeMatch(Tail(p), Tail(t))

\* column LIKE pattern; NULL LIKE pattern is NULL, which filters the row out
Like(text, pattern) == text # NoneText /\ LikeMatch(pattern, text)

\* comparison of two TEXT values given as sequences of fixed-width fields
RECURSIVE TextLeq(_, _)
TextLeq(a, b) ==
  IF a = <<>> THEN TRUE
  ELSE IF b = <<>> THEN FALSE
  ELSE IF Head(a) # Head(b) THEN Head(a) < Head(b)
  ELSE TextLeq(Tail(a), Tail(b))

-----------------------------------------------------------------------------
(* Dates *)

\* A date argument is [fmt, day, sec]: fmt "date" is "YYYY-MM-DD", fmt
\* "datetime" is "YYYY-MM-DDTHH:MM:SS", fmt "bad" any other text, fmt "none"
\* an absent (or empty) argument.
DateOk(value) == value.fmt \in {"date", "datetime"}

\* strptime with the two accepted formats, then .date().isoformat()
_ensure_date(value) == value.day

\* A datetime argument is [fmt, day, sec, micro, tz]: fmt "date", "datetime",
\* "fraction" (with microseconds), "offset" (with a UTC offset) or "bad".
IsoOk(value) == value.fmt \in {"date", "datetime", "fraction", "offset"}

\* datetime.fromisoformat(value).isoformat()
_ensure_iso_date(value) ==
  CASE value.fmt = "date" -> <<value.day, 0>>
    [] value.fmt = "datetime" -> <<value.day, value.sec>>
    [] value.fmt = "fraction" ->
         IF value.micro = 0 THEN <<value.day, value.sec>>
         ELSE <<value.day, value.sec, Dot, value.micro>>
    [] OTHER -> <<value.day, value.sec, PlusSign, value.tz>>

\* f"{date}T00:00:00" and f"{date}T23:59:59"
StartOfDay(day) == <<day, 0>>
EndOfDay(day) == <<day, LastSecond>>

-----------------------------------------------------------------------------
(* Tag serialisation: json.dumps / json.loads on the values that occur *)

\* Python values: None, a str, an int (its digits), a list of values, the
\* empty dict (the texts of the model have no ":", so no object has a key)
PyNone == [t |-> "none", v |-> <<>>]
PyStr(text) == [t |-> "str", v |-> text]
PyNum(digits) == [t |-> "num", v |-> digits]
PyList(items) == [t |-> "list", v |-> items]
PyDict == [t |-> "dict", v |-> <<>>]

Quote == "\""
Backslash == "\\"
Digits == {"0", "1", "2", "3", "4", "5", "6", "7", "8", "9"}

\* the body of a JSON string: quote and backslash are escaped
RECURSIVE JsonEscape(_)
JsonEscape(text) ==
  IF text = <<>> THEN <<>>
  ELSE (IF Head(text) \in {Quote, Backslash} THEN <<Backslash, Head(text)>>
        ELSE <<Head(text)>>) \o JsonEscape(Tail(text))

\* json.dumps with the default separators ", "
RECURSIVE json_dumps(_)
RECURSIVE JsonJoin(_)
JsonJoin(items) ==
  IF items = <<>> THEN <<>>
  ELSE IF Len(items) = 1 THEN json_dumps(Head(items))
  ELSE json_dumps(Head(items)) \o <<",", " ">> \o JsonJoin(Tail(items))
json_dumps(value) ==
  CASE value.t = "str" -> <<Quote>> \o JsonEscape(value.v) \o <<Quote>>
    [] value.t = "num" -> value.v
    [] value.t = "list" -> <<"[">> \o JsonJoin(value.v) \o <<"]">>
    [] OTHER -> <<"n", "u", "l", "l">>

\* a variant of serialize_tags that tests "not tags" instead of "is None"
serialize_tags_falsy(tags) ==
  IF tags.t = "none" \/ tags.v = <<>> THEN NoneText ELSE json_dumps(tags)

\* db.serialize_tags
serialize_tags(tags) == IF tags.t = "none" THEN NoneText ELSE json_dumps(tags)

\* A parse result is [ok, val, rest]
ParseFail == [ok |-> FALSE, val |-> PyNone, rest |-> <<>>]

RECURSIVE SkipWs(_)
SkipWs(text) ==
  IF text # <<>> /\ Head(text) = " " THEN SkipWs(Tail(text)) ELSE text

\* the rest of a JSON string after its opening quote
RECURSIVE ParseStringBody(_, _)
ParseStringBody(text, acc) ==
  IF text = <<>> THEN ParseFail
  ELSE IF Head(text) = Quote
    THEN [ok |-> TRUE, val |-> PyStr(acc), rest |-> Tail(text)]
  ELSE IF Head(text) = Backslash
    THEN IF Len(text) >= 2 /\ text[2] \in {Quote, Backslash}
         THEN ParseStringBody(Tail(Tail(text)), Append(acc, text[2]))
         ELSE ParseFail
  ELSE ParseStringBody(Tail(text), Append(acc, Head(text)))

RECURSIVE ParseDigits(_, _)
ParseDigits(text, acc) ==
  IF text # <<>> /\ Head(text) \in Digits
  THEN ParseDigits(Tail(text), Append(acc, Head(text)))
  ELSE [ok |-> TRUE, val |-> PyNum(acc), rest |-> text]

RECURSIVE ParseValue(_)
RECURSIVE ParseItems(_, _)
\* the items of a JSON array after "[" or after a ","
ParseItems(text, acc) ==
  LET item == ParseValue(text)
      after == SkipWs(item.rest)
  IN IF ~item.ok \/ after = <<>> THEN ParseFail
     ELSE IF Head(after) = "]"
       THEN [ok |-> TRUE, val |-> PyList(Append(acc, item.val)),
             rest |-> Tail(after)]
     ELSE IF Head(after) = ","
       THEN ParseItems(Tail(after), Append(acc, item.val))
     ELSE ParseFail
ParseValue(text) ==
  LET t == SkipWs(text)
  IN IF t = <<>> THEN ParseFail
     ELSE IF Head(t) = Quote THEN ParseStringBody(Tail(t), <<>>)
     ELSE IF Head(t) = "0"
       THEN [ok |-> TRUE, val |-> PyNum(<<"0">>), rest |-> Tail(t)]
     ELSE IF Head(t) \in Digits THEN ParseDigits(t, <<>>)
     ELSE IF Len(t) >= 4 /\ SubSeq(t, 1, 4) = <<"n", "u", "l", "l">>
       THEN [ok |-> TRUE, val |-> PyNone, rest |-> SubSeq(t, 5, Len(t))]
     ELSE IF Head(t) = "{"
       THEN LET inner == SkipWs(Tail(t))
            IN IF inner # <<>> /\ Head(inner) = "}"
               THEN [ok |-> TRUE, val |-> PyDict, rest |-> Tail(inner)]
               ELSE ParseFail
     ELSE IF Head(t) = "["
       THEN LET inner == SkipWs(Tail(t))
            IN IF inner # <<>> /\ Head(inner) = "]"
               THEN [ok |-> TRUE, val |-> PyList(<<>>), rest |-> Tail(inner)]
               ELSE ParseItems(Tail(t), <<>>)
     ELSE ParseFail

\* json.loads: one value, nothing but blanks after it
json_loads(text) ==
  LET r == ParseValue(text)
  IN IF r.ok /\ SkipWs(r.rest) = <<>> THEN r ELSE ParseFail

\* db.deserialize_tags
deserialize_tags(text) ==
  IF text = NoneText \/ text = <<>> THEN PyList(<<>>)
  ELSE IF json_loads(text).ok THEN json_loads(text).val
  ELSE PyList(<<>>)

-----------------------------------------------------------------------------
(* Workout statements *)

\* INSERT INTO workouts (date_time, workout_type, tags, notes)
InsertWorkout(c, date_time, workout_type, tags_json, notes) ==
  LET id == NextRowid(c.work, "workouts")
      row == [id |-> id, date_time |-> date_time,
              workout_type |-> workout_type, tags |-> tags_json,
              notes |-> notes]
      w2 == [BumpSeq(c.work, "workouts") EXCEPT !.workouts = @ \cup {row}]
  IN Execute(c, TRUE, w2, id)

\* INSERT INTO exercises (workout_id, order_index, name, ...): name is
\* NOT NULL and workout_id must reference a workout
InsertExercise(c, workout_id, order_index, name) ==
  LET id == NextRowid(c.work, "exercises")
      row == [id |-> id, workout_id |-> workout_id,
              order_index |-> order_index, name |-> name]
      ok == /\ name # None
            /\ \E w \in c.work.workouts : w.id = workout_id
      w2 == [BumpSeq(c.work, "exercises") EXCEPT !.exercises = @ \cup {row}]
  IN Execute(c, ok, w2, id)

\* INSERT INTO sets (exercise_id, set_index, ..., side, ..., is_warmup):
\* CHECK(side IN ('left', 'right', 'both')) passes for NULL, and exercise_id
\* must reference an exercise
InsertSet(c, exercise_id, set_index, reps, side, is_warmup) ==
  LET id == NextRowid(c.work, "sets")
      row == [id |-> id, exercise_id |-> exercise_id, set_index |-> set_index,
              reps |-> reps, side |-> side, is_warmup |-> is_warmup]
      ok == /\ side \in {None, "left", "right", "both"}
            /\ \E e \in c.work.exercises : e.id = exercise_id
      w2 == [BumpSeq(c.work, "sets") EXCEPT !.sets = @ \cup {row}]
  IN Execute(c, ok, w2, id)

\* a variant of DeleteWorkoutRow on a connection without PRAGMA
\* foreign_keys = ON: the row goes, its exercises and sets stay
DeleteWorkoutRowNoCascade(c, workout_id) ==
  Execute(c, TRUE,
    [c.work EXCEPT !.workouts = {r \in @ : r.id # workout_id}], c.rowid)

\* DELETE FROM workouts WHERE id = ? under the schema: exercises.workout_id
\* and sets.exercise_id are declared ON DELETE CASCADE and the connection
\* enforces foreign keys
DeleteWorkoutRow(c, workout_id) ==
  LET exercises == {e \in c.work.exercises : e.workout_id # workout_id}
  IN Execute(c, TRUE,
       [c.work EXCEPT
          !.workouts = {r \in @ : r.id # workout_id},
          !.exercises = exercises,
          !.sets = {r \in @ : \E e \in exercises : e.id = r.exercise_id}],
       c.rowid)

\* DELETE FROM exercises WHERE id = ?: sets.exercise_id is ON DELETE CASCADE
DeleteExerciseRow(c, exercise_id) ==
  Execute(c, TRUE,
    [c.work EXCEPT !.exercises = {r \in @ : r.id # exercise_id},
                   !.sets = {r \in @ : r.exercise_id # exercise_id}],
    c.rowid)

\* DELETE FROM sets WHERE id = ?
DeleteSetRow(c, set_id) ==
  Execute(c, TRUE, [c.work EXCEPT !.sets = {r \in @ : r.id # set_id}],
          c.rowid)

-----------------------------------------------------------------------------
(* Hydration.  ORDER BY leaves the order of rows with equal keys open, so a *)
(* query yields a set of possible row sequences.                           *)

\* a variant of _load_sets without the ORDER BY
_load_sets_unordered(d, exercise_id) ==
  SeqsOf({r \in d.sets : r.exercise_id = exercise_id})

\* SELECT * FROM sets WHERE exercise_id = ? ORDER BY set_index
_load_sets(d, exercise_id) ==
  {s \in SeqsOf({r \in d.sets : r.exercise_id = exercise_id}) :
     \A i, j \in DOMAIN s : i < j => s[i].set_index <= s[j].set_index}

\* the loop of _hydrate_workout over the fetched exercise rows
RECURSIVE HydrateExercises(_, _)
HydrateExercises(d, rows) ==
  IF rows = <<>> THEN {<<>>}
  ELSE {<<[id |-> Head(rows).id, workout_id |-> Head(rows).workout_id,
           order_index |-> Head(rows).order_index, name |-> Head(rows).name,
           sets |-> ss]>> \o rest :
          ss \in _load_sets(d, Head(rows).id),
          rest \in HydrateExercises(d, Tail(rows))}

\* main._hydrate_workout: the possible nested results for one workout row
_hydrate_workout(d, workout) ==
  UNION {
    {[id |-> workout.id, date_time |-> workout.date_time,
      workout_type |-> workout.workout_type, notes |-> workout.notes,
      tags |-> deserialize_tags(workout.tags), exercises |-> exs] :
        exs \in HydrateExercises(d, rows)} :
    rows \in {s \in SeqsOf({e \in d.exercises : e.workout_id = workout.id}) :
                \A i, j \in DOMAIN s :
                   i < j => s[i].order_index <= s[j].order_index}}

\* hydration of a sequence of workout rows, one after the other
RECURSIVE HydrateAll(_, _)
HydrateAll(d, rows) ==
  IF rows = <<>> THEN {<<>>}
  ELSE {<<h>> \o rest : h \in _hydrate_workout(d, Head(rows)),
                        rest \in HydrateAll(d, Tail(rows))}

-----------------------------------------------------------------------------
(* Workout handlers.  A handler yields [conn, rets]: the connection as the  *)
(* call leaves it and the set of values it may return.                     *)

Raised(c) == [conn |-> c, rets |-> {PyNone}]

\* the inner loop of log_workout over one exercise's sets
RECURSIVE LogSets(_, _, _, _)
LogSets(c, exercise_id, sets, i) ==
  IF i > Len(sets) \/ c.err # "none" THEN c
  ELSE LogSets(
         InsertSet(c, exercise_id,
                   IF sets[i].set_index \in {NoneInt, 0} THEN i
                   ELSE sets[i].set_index,
                   sets[i].reps, sets[i].side,
                   IF sets[i].is_warmup THEN 1 ELSE 0),
         exercise_id, sets, i + 1)

\* the loop of log_workout over the exercises, order_index from 1
RECURSIVE LogExercises(_, _, _, _)
LogExercises(c, workout_id, exercises, i) ==
  IF i > Len(exercises) \/ c.err # "none" THEN c
  ELSE IF exercises[i].name \in {None, ""} THEN Raise(c, "ValueError")
  ELSE LET c1 == InsertExercise(c, workout_id, i, exercises[i].name)
       IN LogExercises(LogSets(c1, c1.rowid, exercises[i].sets, 1),
                       workout_id, exercises, i + 1)

\* main._parse_json_array: a str that is the JSON text of a list becomes that
\* list, every other value is returned as it is
_parse_json_array(value) ==
  IF value.t = "str" /\ json_loads(value.v).ok
       /\ json_loads(value.v).val.t = "list"
  THEN json_loads(value.v).val
  ELSE value

\* main.log_workout (exercises is a list in every call of the model)
log_workout(d, env, date_time, workout_type, tags_arg, notes, exercises) ==
  LET tags == _parse_json_array(tags_arg)
  IN
  IF tags.t \notin {"none", "list"} THEN Raised(NoConnection(d, "TypeError"))
  ELSE IF ~IsoOk(date_time) THEN Raised(NoConnection(d, "ValueError"))
  ELSE
    LET tags_json == serialize_tags(tags)
        c0 == get_connection(d, env)
        c1 == InsertWorkout(c0, _ensure_iso_date(date_time), workout_type,
                            tags_json, notes)
        workout_id == c1.rowid
        c2 == LogExercises(c1, workout_id, exercises, 1)
        c3 == commit(c2)
    IN IF c3.err # "none" THEN Raised(c3)
       ELSE [conn |-> close(c3),
             rets |-> UNION {_hydrate_workout(c3.work, w) :
                        w \in {r \in c3.work.workouts : r.id = workout_id}}]

\* SELECT COALESCE(MAX(order_index), 0) FROM exercises WHERE workout_id = ?
MaxOrderIndex(d, workout_id) ==
  LET S == {e.order_index : e \in {r \in d.exercises : r.workout_id = workout_id}}
  IN IF S = {} THEN 0 ELSE CHOOSE m \in S : \A x \in S : x <= m

\* main.add_exercise from its INSERT on, max_order being what its SELECT
\* returned
add_exercise_insert(d, env, workout_id, max_order, name) ==
  LET c0 == get_connection(d, env)
      c1 == InsertExercise(c0, workout_id, max_order + 1, name)
      c2 == commit(c1)
  IN IF c2.err # "none" THEN Raised(c2)
     ELSE [conn |-> close(c2), rets |-> {c1.rowid}]

\* main.add_exercise run without interruption
add_exercise(d, env, workout_id, name) ==
  add_exercise_insert(d, env, workout_id, MaxOrderIndex(d, workout_id), name)

\* a variant of MaxSetIndex that counts the sets of the exercise
CountSets(d, exercise_id) ==
  Cardinality({r \in d.sets : r.exercise_id = exercise_id})

\* SELECT COALESCE(MAX(set_index), 0) FROM sets WHERE exercise_id = ?
MaxSetIndex(d, exercise_id) ==
  LET S == {r.set_index : r \in {x \in d.sets : x.exercise_id = exercise_id}}
  IN IF S = {} THEN 0 ELSE CHOOSE m \in S : \A x \in S : x <= m

\* main.add_set from its INSERT on, max_set being what its SELECT returned
add_set_insert(d, env, exercise_id, max_set, reps, side, is_warmup) ==
  LET c0 == get_connection(d, env)
      c1 == InsertSet(c0, exercise_id, max_set + 1, reps, side,
                      IF is_warmup THEN 1 ELSE 0)
      c2 == commit(c1)
  IN IF c2.err # "none" THEN Raised(c2)
     ELSE [conn |-> close(c2), rets |-> {c1.rowid}]

\* main.add_set run without interruption
add_set(d, env, exercise_id, reps, side, is_warmup) ==
  add_set_insert(d, env, exercise_id, MaxSetIndex(d, exercise_id),
                 reps, side, is_warmup)

\* a variant of WorkoutFilter whose tag pattern leaves the double quotes out
WorkoutFilterBare(w, from_date, to_date, workout_type, tag) ==
  /\ from_date.fmt # "none" =>
       TextLeq(StartOfDay(_ensure_date(from_date)), w.date_time)
  /\ to_date.fmt # "none" =>
       TextLeq(w.date_time, EndOfDay(_ensure_date(to_date)))
  /\ workout_type \notin {NoneText, <<>>} => w.workout_type = workout_type
  /\ tag \notin {NoneText, <<>>} => Like(w.tags, <<"%">> \o tag \o <<"%">>)

\* the WHERE clause get_workouts builds
WorkoutFilter(w, from_date, to_date, workout_type, tag) ==
  /\ from_date.fmt # "none" =>
       TextLeq(StartOfDay(_ensure_date(from_date)), w.date_time)
  /\ to_date.fmt # "none" =>
       TextLeq(w.date_time, EndOfDay(_ensure_date(to_date)))
  /\ workout_type \notin {NoneText, <<>>} => w.workout_type = workout_type
  /\ tag \notin {NoneText, <<>>} =>
       Like(w.tags, <<"%", Quote>> \o tag \o <<Quote, "%">>)

\* a variant of NewestFirst that orders by date_time ascending
OldestFirst(rows) ==
  {s \in SeqsOf(rows) :
     \A i, j \in DOMAIN s : i < j => TextLeq(s[i].date_time, s[j].date_time)}

\* ORDER BY date_time DESC
NewestFirst(rows) ==
  {s \in SeqsOf(rows) :
     \A i, j \in DOMAIN s : i < j => TextLeq(s[j].date_time, s[i].date_time)}

\* LIMIT ? OFFSET ?: a negative limit is no limit, a negative offset is 0
LimitOffset(s, limit, offset) ==
  LET first == (IF offset < 0 THEN 0 ELSE offset) + 1
      lastIx == IF limit < 0 \/ first + limit - 1 > Len(s) THEN Len(s)
                ELSE first + limit - 1
  IN SubSeq(s, first, lastIx)

\* main.get_workouts
get_workouts(d, env, from_date, to_date, workout_type, tag, limit, offset) ==
  LET c0 == get_connection(d, env)
  IN IF \/ (from_date.fmt # "none" /\ ~DateOk(from_date))
        \/ (to_date.fmt # "none" /\ ~DateOk(to_date))
     THEN Raised(Raise(c0, "ValueError"))
     ELSE [conn |-> close(c0),
           rets |-> UNION {
             HydrateAll(c0.work, LimitOffset(s, limit, offset)) :
               s \in NewestFirst({w \in c0.work.workouts :
                      WorkoutFilter(w, from_date, to_date, workout_type, tag)})}]

\* one DELETE on a workout table, run the way every tool runs its
\* statements: get_connection(), the statement, commit, close.  No tool of
\* main.py deletes a workout, an exercise or a set; the schema decides what
\* such a statement removes.
delete_row(d, env, table, id) ==
  LET c0 == get_connection(d, env)
      c1 == CASE table = "workouts" -> DeleteWorkoutRow(c0, id)
              [] table = "exercises" -> DeleteExerciseRow(c0, id)
              [] OTHER -> DeleteSetRow(c0, id)
      c2 == commit(c1)
  IN IF c2.err # "none" THEN Raised(c2)
     ELSE [conn |-> close(c2), rets |-> {PyNone}]

\* main.get_last_workout: ORDER BY date_time DESC LIMIT 1, then fetchone()
get_last_workout(d, env, workout_type, tag) ==
  IF workout_type \in {NoneText, <<>>} /\ tag \in {NoneText, <<>>}
  THEN Raised(NoConnection(d, "ValueError"))
  ELSE
    LET c0 == get_connection(d, env)
        none == [fmt |-> "none", day |-> 0, sec |-> 0]
        rows == {w \in c0.work.workouts :
                   WorkoutFilter(w, none, none, workout_type, tag)}
    IN [conn |-> close(c0),
        rets |-> IF rows = {} THEN {PyNone}
                 ELSE UNION {_hydrate_workout(c0.work, Head(s)) :
                               s \in NewestFirst(rows)}]

-----------------------------------------------------------------------------
(* Nutrition statements *)

DayByDate(w, date) == {r \in w.nutrition_days : r.date = date}
MealByName(w, day_id, name) ==
  {r \in w.meals : r.day_id = day_id /\ r.name = name}

\* SELECT id FROM nutrition_days WHERE date = ? ... fetchone()[0]
DayId(w, date) == (CHOOSE r \in DayByDate(w, date) : TRUE).id

\* SELECT id FROM meals WHERE day_id = ? AND name = ? ... fetchone()[0]
MealId(w, day_id, name) == (CHOOSE r \in MealByName(w, day_id, name) : TRUE).id

\* a variant of UpsertDayRow that keeps the notes of the row it finds
UpsertDayRowKeepNotes(c, date, notes) ==
  LET id == NextRowid(c.work, "nutrition_days")
      bumped == BumpSeq(c.work, "nutrition_days")
  IN IF DayByDate(c.work, date) # {}
     THEN Execute(c, TRUE, bumped, c.rowid)
     ELSE Execute(c, TRUE,
            [bumped EXCEPT !.nutrition_days =
               @ \cup {[id |-> id, date |-> date, notes |-> notes]}], id)

\* INSERT INTO nutrition_days (date, notes) VALUES (?, ?)
\*   ON CONFLICT(date) DO UPDATE SET notes = ?
\* The update of an existing row leaves the last insert rowid as it was.
UpsertDayRow(c, date, notes) ==
  LET id == NextRowid(c.work, "nutrition_days")
      bumped == BumpSeq(c.work, "nutrition_days")
  IN IF DayByDate(c.work, date) # {}
     THEN Execute(c, TRUE,
            [bumped EXCEPT !.nutrition_days =
               {IF r.date = date THEN [r EXCEPT !.notes = notes] ELSE r :
                  r \in @}], c.rowid)
     ELSE Execute(c, TRUE,
            [bumped EXCEPT !.nutrition_days =
               @ \cup {[id |-> id, date |-> date, notes |-> notes]}], id)

\* INSERT OR IGNORE INTO nutrition_days (date) VALUES (?)
InsertOrIgnoreDay(c, date) ==
  LET id == NextRowid(c.work, "nutrition_days")
      bumped == BumpSeq(c.work, "nutrition_days")
  IN IF DayByDate(c.work, date) # {}
     THEN Execute(c, TRUE, bumped, c.rowid)
     ELSE Execute(c, TRUE,
            [bumped EXCEPT !.nutrition_days =
               @ \cup {[id |-> id, date |-> date, notes |-> NoneText]}], id)

\* a variant of UpsertMealRow that does not report the key of the row it inserts
UpsertMealRowStaleRowid(c, day_id, name, order_index) ==
  LET id == NextRowid(c.work, "meals")
      bumped == BumpSeq(c.work, "meals")
  IN IF MealByName(c.work, day_id, name) # {}
     THEN Execute(c, TRUE,
            [bumped EXCEPT !.meals =
               {IF r.day_id = day_id /\ r.name = name
                THEN [r EXCEPT !.order_index = order_index] ELSE r : r \in @}],
            c.rowid)
     ELSE Execute(c, \E r \in c.work.nutrition_days : r.id = day_id,
            [bumped EXCEPT !.meals =
               @ \cup {[id |-> id, day_id |-> day_id, name |-> name,
                        order_index |-> order_index]}], c.rowid)

\* INSERT INTO meals (day_id, name, order_index) VALUES (?, ?, ?)
\*   ON CONFLICT(day_id, name) DO UPDATE SET order_index = ?
UpsertMealRow(c, day_id, name, order_index) ==
  LET id == NextRowid(c.work, "meals")
      bumped == BumpSeq(c.work, "meals")
  IN IF MealByName(c.work, day_id, name) # {}
     THEN Execute(c, TRUE,
            [bumped EXCEPT !.meals =
               {IF r.day_id = day_id /\ r.name = name
                THEN [r EXCEPT !.order_index = order_index] ELSE r : r \in @}],
            c.rowid)
     ELSE Execute(c, \E r \in c.work.nutrition_days : r.id = day_id,
            [bumped EXCEPT !.meals =
               @ \cup {[id |-> id, day_id |-> day_id, name |-> name,
                        order_index |-> order_index]}], id)

\* a variant of InsertOrIgnoreMeal that is INSERT OR REPLACE: an existing
\* meal is deleted, with its items, and inserted again under a new id
InsertOrReplaceMeal(c, day_id, name) ==
  LET id == NextRowid(c.work, "meals")
      old == {m.id : m \in MealByName(c.work, day_id, name)}
  IN Execute(c, \E r \in c.work.nutrition_days : r.id = day_id,
       [BumpSeq(c.work, "meals") EXCEPT
          !.meals = {m \in @ : m.id \notin old}
                      \cup {[id |-> id, day_id |-> day_id, name |-> name,
                              order_index |-> 0]},
          !.meal_items = {i \in @ : i.meal_id \notin old}], id)

\* INSERT OR IGNORE INTO meals (day_id, name, order_index) VALUES (?, ?, 0)
InsertOrIgnoreMeal(c, day_id, name) ==
  LET id == NextRowid(c.work, "meals")
      bumped == BumpSeq(c.work, "meals")
  IN IF MealByName(c.work, day_id, name) # {}
     THEN Execute(c, TRUE, bumped, c.rowid)
     ELSE Execute(c, \E r \in c.work.nutrition_days : r.id = day_id,
            [bumped EXCEPT !.meals =
               @ \cup {[id |-> id, day_id |-> day_id, name |-> name,
                        order_index |-> 0]}], id)

\* the columns of a meal_items row that carry the macros
ItemRow(id, meal_id, macros) ==
  [id |-> id, meal_id |-> meal_id, calories |-> macros.calories,
   protein_g |-> macros.protein_g, carbs_g |-> macros.carbs_g,
   fats_g |-> macros.fats_g, fiber_g |-> macros.fiber_g]

\* UPDATE meal_items SET ... WHERE id = ?
UpdateItem(c, item_id, macros) ==
  Execute(c, TRUE,
    [c.work EXCEPT !.meal_items =
       {IF r.id = item_id THEN ItemRow(r.id, r.meal_id, macros) ELSE r :
          r \in @}], c.rowid)

\* INSERT INTO meal_items (meal_id, ...) VALUES (...)
InsertItem(c, meal_id, macros) ==
  LET id == NextRowid(c.work, "meal_items")
  IN Execute(c, \E r \in c.work.meals : r.id = meal_id,
       [BumpSeq(c.work, "meal_items") EXCEPT
          !.meal_items = @ \cup {ItemRow(id, meal_id, macros)}], id)

\* the rows a DELETE removes through ON DELETE CASCADE: the items of removed
\* meals, the meals of removed days
Cascade(w) ==
  LET meals == {m \in w.meals : \E r \in w.nutrition_days : r.id = m.day_id}
  IN [w EXCEPT !.meals = meals,
               !.meal_items = {i \in @ : \E m \in meals : m.id = i.meal_id}]

\* DELETE FROM meal_items WHERE id = ?
DeleteItem(c, item_id) ==
  Execute(c, TRUE,
    [c.work EXCEPT !.meal_items = {r \in @ : r.id # item_id}], c.rowid)

\* DELETE FROM meal_items WHERE meal_id IN (...)
DeleteItemsOfMeals(c, meal_ids) ==
  Execute(c, TRUE,
    [c.work EXCEPT !.meal_items = {r \in @ : r.meal_id \notin meal_ids}],
    c.rowid)

\* a variant of DeleteMealRow without ON DELETE CASCADE: the items stay
DeleteMealRowKeepItems(c, meal_id) ==
  Execute(c, TRUE, [c.work EXCEPT !.meals = {r \in @ : r.id # meal_id}],
          c.rowid)

\* DELETE FROM meals WHERE id = ?
DeleteMealRow(c, meal_id) ==
  Execute(c, TRUE,
    [c.work EXCEPT
       !.meals = {r \in @ : r.id # meal_id},
       !.meal_items = {r \in @ : r.meal_id # meal_id}], c.rowid)

\* a variant of DeleteMealsOfDate without the WHERE clause
DeleteMealsOfAnyDate(c, date) ==
  Execute(c, TRUE, Cascade([c.work EXCEPT !.meals = {}]), c.rowid)

\* DELETE FROM meals WHERE day_id IN (SELECT id FROM nutrition_days
\*   WHERE date = ?)
DeleteMealsOfDate(c, date) ==
  LET days == {r.id : r \in DayByDate(c.work, date)}
  IN Execute(c, TRUE,
       Cascade([c.work EXCEPT !.meals = {r \in @ : r.day_id \notin days}]),
       c.rowid)

\* DELETE FROM nutrition_days WHERE date = ?
DeleteDayRow(c, date) ==
  Execute(c, TRUE,
    Cascade([c.work EXCEPT !.nutrition_days = {r \in @ : r.date # date}]),
    c.rowid)

-----------------------------------------------------------------------------
(* Nutrition handlers *)

\* main.upsert_nutrition_day
upsert_nutrition_day(d, env, date, notes) ==
  IF ~DateOk(date) THEN Raised(NoConnection(d, "ValueError"))
  ELSE
    LET c0 == get_connection(d, env)
        c1 == UpsertDayRow(c0, _ensure_date(date), notes)
        c2 == commit(c1)
    IN IF c2.err # "none" THEN Raised(c2)
       ELSE [conn |-> close(c2),
             rets |-> {IF c1.rowid # 0 THEN c1.rowid
                       ELSE DayId(c1.work, _ensure_date(date))}]

\* main.upsert_meal
upsert_meal(d, env, date, name, order_index) ==
  IF ~DateOk(date) THEN Raised(NoConnection(d, "ValueError"))
  ELSE
    LET c0 == get_connection(d, env)
        c1 == InsertOrIgnoreDay(c0, _ensure_date(date))
    IN IF c1.err # "none" THEN Raised(c1)
       ELSE
         LET day_id == DayId(c1.work, _ensure_date(date))
             c2 == UpsertMealRow(c1, day_id, name, order_index)
             c3 == commit(c2)
         IN IF c3.err # "none" THEN Raised(c3)
            ELSE [conn |-> close(c3),
                  rets |-> {IF c2.rowid # 0 THEN c2.rowid
                            ELSE MealId(c2.work, day_id, name)}]

\* main.add_or_update_meal_item
add_or_update_meal_item(d, env, date, meal_name, macros, item_id) ==
  IF ~DateOk(date) THEN Raised(NoConnection(d, "ValueError"))
  ELSE
    LET c0 == get_connection(d, env)
        c1 == InsertOrIgnoreDay(c0, _ensure_date(date))
    IN IF c1.err # "none" THEN Raised(c1)
       ELSE
         LET day_id == DayId(c1.work, _ensure_date(date))
             c2 == InsertOrIgnoreMeal(c1, day_id, meal_name)
         IN IF c2.err # "none" THEN Raised(c2)
            ELSE
              LET meal_id == MealId(c2.work, day_id, meal_name)
                  given == item_id \notin {NoneInt, 0}
                  c3 == IF given THEN UpdateItem(c2, item_id, macros)
                        ELSE InsertItem(c2, meal_id, macros)
                  c4 == commit(c3)
              IN IF c4.err # "none" THEN Raised(c4)
                 ELSE [conn |-> close(c4),
                       rets |-> {[item_id |-> IF given THEN item_id
                                              ELSE c3.rowid,
                                  meal_id |-> meal_id, day_id |-> day_id]}]

\* a variant of MealItems that reads the items of every meal
MealItemsOfAnyMeal(d, meal_id) == SeqsOf(d.meal_items)

\* SELECT * FROM meal_items WHERE meal_id = ?: the rows in any order
MealItems(d, meal_id) == SeqsOf({r \in d.meal_items : r.meal_id = meal_id})

\* the totals get_nutrition_day computes from a list of rows or of totals
Totals(rows) ==
  [calories |-> SumSeq([i \in DOMAIN rows |-> rows[i].calories]),
   protein_g |-> SumSeq([i \in DOMAIN rows |-> rows[i].protein_g]),
   carbs_g |-> SumSeq([i \in DOMAIN rows |-> rows[i].carbs_g]),
   fats_g |-> SumSeq([i \in DOMAIN rows |-> rows[i].fats_g]),
   fiber_g |-> SumSeq([i \in DOMAIN rows |-> rows[i].fiber_g])]

\* the loop of get_nutrition_day over the fetched meal rows
RECURSIVE HydrateMeals(_, _)
HydrateMeals(d, rows) ==
  IF rows = <<>> THEN {<<>>}
  ELSE {<<[id |-> Head(rows).id, day_id |-> Head(rows).day_id,
           name |-> Head(rows).name, order_index |-> Head(rows).order_index,
           items |-> items, totals |-> Totals(items)]>> \o rest :
          items \in MealItems(d, Head(rows).id),
          rest \in HydrateMeals(d, Tail(rows))}

\* the value get_nutrition_day returns when no day row exists
Absent == [found |-> FALSE]

\* main.get_nutrition_day
get_nutrition_day(d, env, date) ==
  IF ~DateOk(date) THEN Raised(NoConnection(d, "ValueError"))
  ELSE
    LET c0 == get_connection(d, env)
        days == DayByDate(c0.work, _ensure_date(date))
    IN IF days = {} THEN [conn |-> close(c0), rets |-> {Absent}]
       ELSE
         LET day == CHOOSE r \in days : TRUE
         IN [conn |-> close(c0),
             rets |-> UNION {
               {[found |-> TRUE, id |-> day.id, date |-> day.date,
                 notes |-> day.notes, meals |-> meals,
                 totals |-> Totals([i \in DOMAIN meals |-> meals[i].totals])] :
                   meals \in HydrateMeals(c0.work, rows)} :
               rows \in {s \in SeqsOf({m \in c0.work.meals : m.day_id = day.id}) :
                           \A i, j \in DOMAIN s :
                             i < j => s[i].order_index <= s[j].order_index}}]

\* main.delete_meal_item
delete_meal_item(d, env, item_id) ==
  LET c0 == get_connection(d, env)
      c1 == commit(DeleteItem(c0, item_id))
  IN IF c1.err # "none" THEN Raised(c1)
     ELSE [conn |-> close(c1),
           rets |-> {\E r \in c0.work.meal_items : r.id = item_id}]

\* main.delete_meal
delete_meal(d, env, meal_id, delete_items) ==
  LET c0 == get_connection(d, env)
      c1 == IF delete_items THEN DeleteItemsOfMeals(c0, {meal_id}) ELSE c0
      c2 == commit(DeleteMealRow(c1, meal_id))
  IN IF c2.err # "none" THEN Raised(c2)
     ELSE [conn |-> close(c2),
           rets |-> {\E r \in c1.work.meals : r.id = meal_id}]

\* the statements of delete_nutrition_day in the order they run: the
\* connection after the items, after the meals and after the day are deleted
DeleteDaySteps(c0, day, cascade) ==
  LET meal_ids == {m.id : m \in {r \in c0.work.meals :
                     \E x \in DayByDate(c0.work, day) : x.id = r.day_id}}
      c1 == IF cascade /\ meal_ids # {}
            THEN DeleteItemsOfMeals(c0, meal_ids) ELSE c0
      c2 == IF cascade THEN DeleteMealsOfDate(c1, day) ELSE c1
  IN <<c1, c2, DeleteDayRow(c2, day)>>

\* main.delete_nutrition_day
delete_nutrition_day(d, env, date, cascade) ==
  IF ~DateOk(date) THEN Raised(NoConnection(d, "ValueError"))
  ELSE
    LET day == _ensure_date(date)
        steps == DeleteDaySteps(get_connection(d, env), day, cascade)
        c2 == steps[2]
        c3 == commit(steps[3])
    IN IF c3.err # "none" THEN Raised(c3)
       ELSE [conn |-> close(c3), rets |-> {DayByDate(c2.work, day) # {}}]

-----------------------------------------------------------------------------
(* Body metrics *)

\* INSERT INTO body_metrics (date, body_weight_kg, notes): date is UNIQUE
InsertBodyMetrics(c, date, body_weight_kg, notes) ==
  LET id == NextRowid(c.work, "body_metrics")
      row == [id |-> id, date |-> date, body_weight_kg |-> body_weight_kg,
              notes |-> notes]
  IN Execute(c, \A r \in c.work.body_metrics : r.date # date,
       [BumpSeq(c.work, "body_metrics") EXCEPT !.body_metrics = @ \cup {row}],
       id)

\* INSERT INTO skinfolds (body_metrics_id, site_name, mm)
InsertSkinfold(c, body_metrics_id, site_name, mm) ==
  LET id == NextRowid(c.work, "skinfolds")
      row == [id |-> id, body_metrics_id |-> body_metrics_id,
              site_name |-> site_name, mm |-> mm]
  IN Execute(c, \E r \in c.work.body_metrics : r.id = body_metrics_id,
       [BumpSeq(c.work, "skinfolds") EXCEPT !.skinfolds = @ \cup {row}], id)

\* the loop of log_body_metrics over skinfolds.items(), given as the
\* sequence of its <<site, mm>> pairs
RECURSIVE LogSkinfolds(_, _, _, _)
LogSkinfolds(c, metrics_id, skinfolds, i) ==
  IF i > Len(skinfolds) \/ c.err # "none" THEN c
  ELSE LogSkinfolds(
         InsertSkinfold(c, metrics_id, skinfolds[i][1], skinfolds[i][2]),
         metrics_id, skinfolds, i + 1)

\* main.log_body_metrics
log_body_metrics(d, env, date, body_weight_kg, skinfolds, notes) ==
  IF ~DateOk(date) THEN Raised(NoConnection(d, "ValueError"))
  ELSE
    LET c0 == get_connection(d, env)
        c1 == InsertBodyMetrics(c0, _ensure_date(date), body_weight_kg, notes)
        metrics_id == c1.rowid
        c2 == commit(LogSkinfolds(c1, metrics_id, skinfolds, 1))
    IN IF c2.err # "none" THEN Raised(c2)
       ELSE [conn |-> close(c2), rets |-> {metrics_id}]

-----------------------------------------------------------------------------
(* Search *)

AllDomains == {"workout", "nutrition", "body"}

\* domains or ["workout", "nutrition", "body"]
EffectiveDomains(domains) == IF domains = {} THEN AllDomains ELSE domains

\* f"%{query}%"
Contains(query) == <<"%">> \o query \o <<"%">>

\* the WHERE clause of the workout query of search_logs
WorkoutMatches(d, query, from_date, to_date) ==
  {w \in d.workouts :
     /\ \/ Like(w.notes, Contains(query))
        \/ Like(w.workout_type, Contains(query))
        \/ Like(w.tags, Contains(query))
     /\ from_date.fmt # "none" =>
          TextLeq(StartOfDay(_ensure_date(from_date)), w.date_time)
     /\ to_date.fmt # "none" =>
          TextLeq(w.date_time, EndOfDay(_ensure_date(to_date)))}

\* the WHERE clause of the nutrition_days and body_metrics queries
NotesMatches(rows, query, from_date, to_date) ==
  {r \in rows :
     /\ Like(r.notes, Contains(query))
     /\ from_date.fmt # "none" => r.date >= _ensure_date(from_date)
     /\ to_date.fmt # "none" => r.date <= _ensure_date(to_date)}

\* SELECT ... LIMIT ? without ORDER BY: any cap of the rows in any order, all
\* of them when the cap is negative
LimitRows(rows, cap) ==
  LET k == IF cap < 0 \/ cap > Cardinality(rows) THEN Cardinality(rows)
           ELSE cap
  IN UNION {SeqsOf(T) : T \in {U \in SUBSET rows : Cardinality(U) = k}}

\* results[:limit]
Slice(results, limit) ==
  IF limit >= 0
  THEN SubSeq(results, 1, IF limit < Len(results) THEN limit ELSE Len(results))
  ELSE SubSeq(results, 1, Len(results) + limit)

Tagged(domain, records) ==
  [i \in DOMAIN records |-> [domain |-> domain, record |-> records[i]]]

\* a variant of Remaining that hands every query the whole limit
RemainingIsLimit(limit, results) == limit

\* remaining = limit - len(results)
Remaining(limit, results) == limit - Len(results)

\* a variant of SearchBody that puts the body_metrics results first
SearchBodyFirst(d, results, query, domains, from_date, to_date, limit) ==
  IF "body" \in domains
  THEN {Tagged("body", rows) \o results :
          rows \in LimitRows(NotesMatches(d.body_metrics, query, from_date,
                                          to_date),
                             Remaining(limit, results))}
  ELSE {results}

\* the body_metrics part of search_logs and its return
SearchBody(d, results, query, domains, from_date, to_date, limit) ==
  IF "body" \in domains
  THEN {results \o Tagged("body", rows) :
          rows \in LimitRows(NotesMatches(d.body_metrics, query, from_date,
                                          to_date),
                             Remaining(limit, results))}
  ELSE {results}

\* the nutrition_days part of search_logs and what follows it
SearchNutrition(d, results, query, domains, from_date, to_date, limit) ==
  LET found ==
        IF "nutrition" \in domains
        THEN {results \o Tagged("nutrition", rows) :
                rows \in LimitRows(NotesMatches(d.nutrition_days, query,
                                                from_date, to_date),
                                   Remaining(limit, results))}
        ELSE {results}
  IN UNION {IF Len(r) >= limit THEN {Slice(r, limit)}
            ELSE SearchBody(d, r, query, domains, from_date, to_date, limit) :
              r \in found}

\* main.search_logs
search_logs(d, env, query, domains_arg, from_date, to_date, limit) ==
  LET domains == EffectiveDomains(domains_arg)
      c0 == get_connection(d, env)
      bad == \/ (from_date.fmt # "none" /\ ~DateOk(from_date))
             \/ (to_date.fmt # "none" /\ ~DateOk(to_date))
  IN IF bad /\ ("workout" \in domains
                \/ (limit > 0 /\ domains \cap {"nutrition", "body"} # {}))
     THEN Raised(Raise(c0, "ValueError"))
     ELSE
       LET found ==
             IF "workout" \in domains
             THEN UNION {{Tagged("workout", hs) : hs \in HydrateAll(d, rows)} :
                    rows \in LimitRows(WorkoutMatches(d, query, from_date,
                                                      to_date), limit)}
             ELSE {<<>>}
       IN [conn |-> close(c0),
           rets |-> UNION {
             IF Len(r) >= limit THEN {Slice(r, limit)}
             ELSE SearchNutrition(d, r, query, domains, from_date, to_date,
                                  limit) : r \in found}]

-----------------------------------------------------------------------------
(* State *)

Procs == 1..NumProcs

Idle == [at |-> "idle", exercise_id |-> 0, max_set |-> 0]

NoCall ==
  [op |-> "none", args |-> <<>>, fault |-> 0, busy |-> FALSE,
   status |-> "none", err |-> "none", ret |-> PyNone, open |-> FALSE]

\* the store as _initialize_tables leaves it, no connection open, no call made
Init ==
  /\ db = EmptyStore
  /\ leaked = [n |-> 0, lock |-> FALSE]
  /\ last = NoCall
  /\ pc = [p \in Procs |-> Idle]
  /\ assigned = {}

\* what a call meets: the statement the engine fails and whether a connection
\* that was never closed still holds the write lock
Env(fault) == [fault |-> fault, busy |-> leaked.lock]

\* the positions the exercises and sets of a store hold within their parents
Positions(d) ==
  {[table |-> "exercises", parent |-> e.workout_id,
    position |-> e.order_index] : e \in d.exercises}
    \cup {[table |-> "sets", parent |-> r.exercise_id,
           position |-> r.set_index] : r \in d.sets}

\* the effect of a finished call on the store, on the connections left open
\* and on the record of the last call
Finish(op, args, env, h, ret) ==
  LET open == h.conn.opened /\ ~h.conn.closed
  IN /\ open => leaked.n < MaxLeaked
     /\ \A t \in Tables : h.conn.disk.seq[t] <= MaxId
     /\ db' = h.conn.disk
     /\ leaked' = IF open
                  THEN [n |-> leaked.n + 1, lock |-> leaked.lock \/ h.conn.lock]
                  ELSE leaked
     /\ last' = [op |-> op, args |-> args,
                 fault |-> IF h.conn.n = env.fault THEN env.fault ELSE 0,
                 busy |-> env.busy,
                 status |-> IF h.conn.err = "none" THEN "returned" ELSE "raised",
                 err |-> h.conn.err, ret |-> ret, open |-> open]
     /\ assigned' = assigned \cup Positions(h.conn.disk)

\* the garbage collector finalises the connections that were never closed:
\* their uncommitted work is rolled back and the write lock released
CollectGarbage ==
  /\ leaked.n > 0
  /\ leaked' = [n |-> 0, lock |-> FALSE]
  /\ UNCHANGED <<db, last, pc, assigned>>

-----------------------------------------------------------------------------
(* Workout inputs *)

Noon == 43200

DT(fmt, day, sec, micro, tz) ==
  [fmt |-> fmt, day |-> day, sec |-> sec, micro |-> micro, tz |-> tz]

BadDateTime == DT("bad", 0, 0, 0, 0)

NoDate == [fmt |-> "none", day |-> 0, sec |-> 0]
BadDate == [fmt |-> "bad", day |-> 0, sec |-> 0]
OnDay(day) == [fmt |-> "date", day |-> day, sec |-> 0]

SetPayload(set_index, side) ==
  [set_index |-> set_index, reps |-> 5, side |-> side, is_warmup |-> FALSE]

ExercisePayload(name, sets) == [name |-> name, sets |-> sets]

GoodExercise == ExercisePayload("squat", <<SetPayload(NoneInt, None)>>)
NamelessExercise == ExercisePayload(None, <<>>)
BadSideExercise ==
  ExercisePayload("row", <<SetPayload(NoneInt, "left"), SetPayload(2, "up")>>)

\* exercise lists: complete ones, one whose second exercise has no name, one
\* whose second set has a side the store rejects
ExerciseLists ==
  {<<>>, <<GoodExercise>>, <<ExercisePayload("squat", <<>>), GoodExercise>>,
   <<GoodExercise, NamelessExercise>>, <<BadSideExercise>>}

-----------------------------------------------------------------------------
(* Workout actions *)

LogWorkout(date_times, types, tagss, notess, exerciseLists, faults) ==
  \E date_time \in date_times, workout_type \in types, tags \in tagss,
     notes \in notess, exercises \in exerciseLists, fault \in faults :
    LET h == log_workout(db, Env(fault), date_time, workout_type, tags,
                         notes, exercises)
    IN \E ret \in h.rets :
         /\ Finish("log_workout",
                   [date_time |-> date_time, workout_type |-> workout_type,
                    tags |-> tags, notes |-> notes, exercises |-> exercises],
                   Env(fault), h, ret)
         /\ UNCHANGED pc

AddExercise ==
  \E workout_id \in 1..MaxId, name \in {"press"}, fault \in 0..1 :
    LET h == add_exercise(db, Env(fault), workout_id, name)
    IN \E ret \in h.rets :
         /\ Finish("add_exercise", [workout_id |-> workout_id, name |-> name],
                   Env(fault), h, ret)
         /\ UNCHANGED pc

AddSet ==
  \E exercise_id \in 1..MaxId, side \in {None, "up"}, fault \in 0..1 :
    LET h == add_set(db, Env(fault), exercise_id, 5, side, FALSE)
    IN \E ret \in h.rets :
         /\ Finish("add_set", [exercise_id |-> exercise_id, side |-> side],
                   Env(fault), h, ret)
         /\ UNCHANGED pc

GetWorkouts(dates, types, tags, limits, offsets) ==
  \E from_date \in dates, to_date \in dates, workout_type \in types,
     tag \in tags, limit \in limits, offset \in offsets :
    LET h == get_workouts(db, Env(0), from_date, to_date, workout_type, tag,
                          limit, offset)
    IN \E ret \in h.rets :
         /\ Finish("get_workouts",
                   [from_date |-> from_date, to_date |-> to_date,
                    workout_type |-> workout_type, tag |-> tag,
                    limit |-> limit, offset |-> offset],
                   Env(0), h, ret)
         /\ UNCHANGED pc

\* one caller's add_set up to the result of its SELECT MAX(set_index)
AddSetSelect(p) ==
  \E exercise_id \in 1..MaxId :
    /\ pc[p].at = "idle"
    /\ pc' = [pc EXCEPT ![p] = [at |-> "insert", exercise_id |-> exercise_id,
                                max_set |-> MaxSetIndex(db, exercise_id)]]
    /\ UNCHANGED <<db, leaked, last, assigned>>

\* the same caller's INSERT, commit and close
AddSetInsert(p) ==
  /\ pc[p].at = "insert"
  /\ LET h == add_set_insert(db, Env(0), pc[p].exercise_id, pc[p].max_set,
                             5, None, FALSE)
     IN \E ret \in h.rets :
          /\ Finish("add_set",
                    [exercise_id |-> pc[p].exercise_id, side |-> None,
                     caller |-> p, max_set |-> pc[p].max_set],
                    Env(0), h, ret)
          /\ pc' = [pc EXCEPT ![p] = Idle]

\* one caller's add_exercise up to the result of its SELECT MAX(order_index)
AddExerciseSelect(p) ==
  \E workout_id \in 1..MaxId :
    /\ pc[p].at = "idle"
    /\ pc' = [pc EXCEPT ![p] = [at |-> "insert_exercise",
                                workout_id |-> workout_id,
                                max_order |-> MaxOrderIndex(db, workout_id)]]
    /\ UNCHANGED <<db, leaked, last, assigned>>

\* the same caller's INSERT, commit and close
AddExerciseInsert(p) ==
  /\ pc[p].at = "insert_exercise"
  /\ LET h == add_exercise_insert(db, Env(0), pc[p].workout_id,
                                  pc[p].max_order, "press")
     IN \E ret \in h.rets :
          /\ Finish("add_exercise",
                    [workout_id |-> pc[p].workout_id, name |-> "press",
                     caller |-> p, max_order |-> pc[p].max_order],
                    Env(0), h, ret)
          /\ pc' = [pc EXCEPT ![p] = Idle]

-----------------------------------------------------------------------------
(* Specifications of the workout tools *)

\* log_workout and get_workouts, one call at a time
NextWorkout ==
  \/ LogWorkout({DT("datetime", 1, Noon, 0, 0), BadDateTime}, {NoneText},
                {PyNone}, {NoneText}, ExerciseLists, 0..MaxFault)
  \/ GetWorkouts({NoDate, BadDate}, {NoneText}, {NoneText}, {20}, {0})
  \/ CollectGarbage

SpecWorkout == Init /\ [][NextWorkout]_vars

\* appending exercises and sets to logged workouts, one call at a time
NextAppend ==
  \/ LogWorkout({DT("datetime", 1, Noon, 0, 0)}, {NoneText}, {PyNone},
                {NoneText}, {<<>>, <<GoodExercise>>}, {0})
  \/ AddExercise
  \/ AddSet
  \/ CollectGarbage

SpecAppend == Init /\ [][NextAppend]_vars

\* callers whose add_set calls interleave on exercises logged without sets
NextConcurrent ==
  \/ LogWorkout({DT("datetime", 1, Noon, 0, 0)}, {NoneText}, {PyNone},
                {NoneText}, {<<ExercisePayload("squat", <<>>)>>}, {0})
  \/ \E p \in Procs : AddSetSelect(p)
  \/ \E p \in Procs : AddSetInsert(p)
  \/ CollectGarbage

SpecConcurrent == Init /\ [][NextConcurrent]_vars

-----------------------------------------------------------------------------
(* Properties of the workout tools *)

\* the rows a returned log_workout call must have stored for its input
Persisted(d, args, ret) ==
  \E w \in d.workouts :
    /\ w.id = ret.id
    /\ Cardinality({e \in d.exercises : e.workout_id = w.id})
         = Len(args.exercises)
    /\ \A i \in DOMAIN args.exercises :
         \E e \in d.exercises :
           /\ e.workout_id = w.id
           /\ e.order_index = i
           /\ e.name = args.exercises[i].name
           /\ Cardinality({r \in d.sets : r.exercise_id = e.id})
                = Len(args.exercises[i].sets)

\* C1: log_workout is all-or-nothing.  A step that ends in a log_workout call
\* that raised leaves the store equal to the store before it (no workout,
\* exercise or set row of the call is kept); a log_workout call that returned
\* has stored its workout, every exercise and every set.
C1_AllOrNothing ==
  [][/\ (last'.op = "log_workout" /\ last'.status = "raised") => db' = db
     /\ (last'.op = "log_workout" /\ last'.status = "returned")
          => Persisted(db', last'.args, last'.ret)]_vars

\* a log_workout call failed on a rejected set after its workout, exercise
\* and first set were inserted, on a store that already held a workout
C1_Witness ==
  /\ last.op = "log_workout"
  /\ last.err = "IntegrityError"
  /\ last.args.exercises = <<BadSideExercise>>
  /\ db.workouts # {}

\* C2: interleaved add_set calls on one exercise receive distinct positions:
\* the set_index values stored for an exercise are exactly 1..N, N being the
\* number of its sets, without duplicate and without gap.
C2_DistinctPositions ==
  \A e \in db.exercises :
    LET S == {r \in db.sets : r.exercise_id = e.id}
    IN {r.set_index : r \in S} = 1..Cardinality(S)

\* C3: when no call is in progress, no connection opened by a finished call
\* is still open, whether the call returned or raised.
C3_ConnectionsReleased == leaked.n = 0

-----------------------------------------------------------------------------
(* Nutrition, body and search inputs and actions *)

Macros(calories, protein_g, carbs_g, fats_g, fiber_g) ==
  [calories |-> calories, protein_g |-> protein_g, carbs_g |-> carbs_g,
   fats_g |-> fats_g, fiber_g |-> fiber_g]

Apple == Macros(100, 10, 20, 5, 3)
Bread == Macros(250, 0, 30, 8, 1)

UpsertNutritionDay(dates, notess, faults) ==
  \E date \in dates, notes \in notess, fault \in faults :
    LET h == upsert_nutrition_day(db, Env(fault), date, notes)
    IN \E ret \in h.rets :
         /\ Finish("upsert_nutrition_day", [date |-> date, notes |-> notes],
                   Env(fault), h, ret)
         /\ UNCHANGED pc

UpsertMeal(dates, names, indexes, faults) ==
  \E date \in dates, name \in names, order_index \in indexes,
     fault \in faults :
    LET h == upsert_meal(db, Env(fault), date, name, order_index)
    IN \E ret \in h.rets :
         /\ Finish("upsert_meal",
                   [date |-> date, name |-> name, order_index |-> order_index],
                   Env(fault), h, ret)
         /\ UNCHANGED pc

AddOrUpdateMealItem(dates, names, macross, item_ids, faults) ==
  \E date \in dates, meal_name \in names, macros \in macross,
     item_id \in item_ids, fault \in faults :
    LET h == add_or_update_meal_item(db, Env(fault), date, meal_name, macros,
                                     item_id)
    IN \E ret \in h.rets :
         /\ Finish("add_or_update_meal_item",
                   [date |-> date, meal_name |-> meal_name, macros |-> macros,
                    item_id |-> item_id],
                   Env(fault), h, ret)
         /\ UNCHANGED pc

GetNutritionDay(dates) ==
  \E date \in dates :
    LET h == get_nutrition_day(db, Env(0), date)
    IN \E ret \in h.rets :
         /\ Finish("get_nutrition_day", [date |-> date], Env(0), h, ret)
         /\ UNCHANGED pc

DeleteMealItem(faults) ==
  \E item_id \in 1..MaxId, fault \in faults :
    LET h == delete_meal_item(db, Env(fault), item_id)
    IN \E ret \in h.rets :
         /\ Finish("delete_meal_item", [item_id |-> item_id], Env(fault), h,
                   ret)
         /\ UNCHANGED pc

DeleteMeal(faults) ==
  \E meal_id \in 1..MaxId, delete_items \in BOOLEAN, fault \in faults :
    LET h == delete_meal(db, Env(fault), meal_id, delete_items)
    IN \E ret \in h.rets :
         /\ Finish("delete_meal",
                   [meal_id |-> meal_id, delete_items |-> delete_items],
                   Env(fault), h, ret)
         /\ UNCHANGED pc

DeleteNutritionDay(dates, faults) ==
  \E date \in dates, cascade \in BOOLEAN, fault \in faults :
    LET h == delete_nutrition_day(db, Env(fault), date, cascade)
    IN \E ret \in h.rets :
         /\ Finish("delete_nutrition_day",
                   [date |-> date, cascade |-> cascade], Env(fault), h, ret)
         /\ UNCHANGED pc

LogBodyMetrics(dates, skinfoldss, notess, faults) ==
  \E date \in dates, skinfolds \in skinfoldss, notes \in notess,
     fault \in faults :
    LET h == log_body_metrics(db, Env(fault), date, 80, skinfolds, notes)
    IN \E ret \in h.rets :
         /\ Finish("log_body_metrics",
                   [date |-> date, skinfolds |-> skinfolds, notes |-> notes],
                   Env(fault), h, ret)
         /\ UNCHANGED pc

SearchLogs(queries, domainSets, dates, limits) ==
  \E query \in queries, domains \in domainSets, from_date \in dates,
     limit \in limits :
    LET h == search_logs(db, Env(0), query, domains, from_date, NoDate, limit)
    IN \E ret \in h.rets :
         /\ Finish("search_logs",
                   [query |-> query, domains |-> domains,
                    from_date |-> from_date, to_date |-> NoDate,
                    limit |-> limit],
                   Env(0), h, ret)
         /\ UNCHANGED pc

-----------------------------------------------------------------------------
(* Specifications of the nutrition, body-metrics and search tools *)

Days == {OnDay(1), OnDay(2)}

TwoSkinfolds == <<<<"abdomen", 10>>, <<"chest", 12>>>>

\* the three operations that write nutrition days
NextDays ==
  \/ UpsertNutritionDay(Days \cup {BadDate}, {<<"a">>, <<"b">>}, {0, 1})
  \/ UpsertMeal(Days, {"lunch"}, {0}, {0})
  \/ AddOrUpdateMealItem(Days, {"lunch"}, {Apple}, {NoneInt}, {0})
  \/ CollectGarbage

SpecDays == Init /\ [][NextDays]_vars

\* the operations that create, change and remove meals
NextMeals ==
  \/ UpsertNutritionDay(Days, {<<"a">>}, {0})
  \/ UpsertMeal(Days, {"lunch", "dinner"}, {0, 1}, {0, 2})
  \/ AddOrUpdateMealItem(Days, {"lunch"}, {Apple}, {NoneInt}, {0})
  \/ DeleteMeal({0})
  \/ CollectGarbage

SpecMeals == Init /\ [][NextMeals]_vars

\* items are added, updated and deleted and days are read back
NextTotals ==
  \/ UpsertNutritionDay({OnDay(1)}, {<<"a">>}, {0})
  \/ AddOrUpdateMealItem(Days, {"lunch", "dinner"}, {Apple, Bread},
                         {NoneInt, 1}, {0})
  \/ DeleteMealItem({0, 1})
  \/ GetNutritionDay(Days)
  \/ CollectGarbage

SpecTotals == Init /\ [][NextTotals]_vars

\* the writes of several statements, any statement of which may fail
NextAtomic ==
  \/ UpsertMeal({OnDay(1)}, {"lunch"}, {0, 1}, 0..MaxFault)
  \/ AddOrUpdateMealItem({OnDay(1)}, {"lunch"}, {Apple}, {NoneInt, 1},
                         0..MaxFault)
  \/ DeleteMeal(0..MaxFault)
  \/ DeleteNutritionDay({OnDay(1)}, 0..MaxFault)
  \/ LogBodyMetrics({OnDay(1)}, {<<>>, TwoSkinfolds}, {NoneText}, 0..MaxFault)
  \/ CollectGarbage

SpecAtomic == Init /\ [][NextAtomic]_vars

\* body metrics are logged, also twice for one date
NextBody ==
  \/ LogBodyMetrics(Days \cup {BadDate},
                    {<<>>, <<<<"abdomen", 10>>>>, TwoSkinfolds},
                    {NoneText, <<"a">>}, 0..MaxFault)
  \/ CollectGarbage

SpecBody == Init /\ [][NextBody]_vars

-----------------------------------------------------------------------------
(* Properties of the nutrition and body-metrics tools *)

DayWriters == {"upsert_nutrition_day", "upsert_meal", "add_or_update_meal_item"}

\* C4: one nutrition_days row per written date.  No two day rows share a
\* date; after a returned upsert_nutrition_day, upsert_meal or
\* add_or_update_meal_item the date it wrote has a row; an
\* upsert_nutrition_day for a date that already has a row adds no row,
\* returns that row's id and sets its notes to the given notes; and the
\* notes of a day change only in an upsert_nutrition_day call for its date.
C4_OneDayPerDate ==
  [][/\ \A r1, r2 \in db'.nutrition_days : r1.date = r2.date => r1 = r2
     /\ (last'.op \in DayWriters /\ last'.status = "returned")
          => DayByDate(db', _ensure_date(last'.args.date)) # {}
     /\ (last'.op = "upsert_nutrition_day" /\ last'.status = "returned")
          => \A r \in DayByDate(db, _ensure_date(last'.args.date)) :
               /\ Cardinality(db'.nutrition_days)
                    = Cardinality(db.nutrition_days)
               /\ last'.ret = r.id
               /\ [r EXCEPT !.notes = last'.args.notes] \in db'.nutrition_days
     /\ \A r \in db.nutrition_days, r2 \in db'.nutrition_days :
          (r.id = r2.id /\ r.notes # r2.notes)
            => /\ last'.op = "upsert_nutrition_day"
               /\ r.date = _ensure_date(last'.args.date)]_vars

\* an upsert_nutrition_day with notes "b" returned the id of a row that
\* existed before the call (the key the call generated was not used)
C4_Witness ==
  /\ last.op = "upsert_nutrition_day"
  /\ last.status = "returned"
  /\ last.args.notes = <<"b">>
  /\ last.ret < db.seq["nutrition_days"]
  /\ \E r \in db.nutrition_days : r.id = last.ret /\ r.notes = <<"b">>

\* C5: at most one meal per (day, name).  A returned upsert_meal leaves a
\* meal of that day and name with the given order_index and returns that
\* meal's id; when the meal existed it adds no meal row and returns the
\* existing meal's id; when the date had no day row the day exists
\* afterwards and the id returned is the new meal's.
C5_OneMealPerName ==
  [][/\ \A m1, m2 \in db'.meals :
          (m1.day_id = m2.day_id /\ m1.name = m2.name) => m1 = m2
     /\ (last'.op = "upsert_meal" /\ last'.status = "returned")
          => /\ \E day \in DayByDate(db', _ensure_date(last'.args.date)) :
                  \E m \in db'.meals :
                    /\ m.day_id = day.id
                    /\ m.name = last'.args.name
                    /\ m.order_index = last'.args.order_index
                    /\ m.id = last'.ret
             /\ \A day \in DayByDate(db, _ensure_date(last'.args.date)) :
                  \A m \in MealByName(db, day.id, last'.args.name) :
                    /\ Cardinality(db'.meals) = Cardinality(db.meals)
                    /\ last'.ret = m.id]_vars

\* an upsert_meal created the day (the newest key of nutrition_days, notes
\* NULL) and the meal, whose id differs from the day's, and returned the
\* meal's id
C5_Witness ==
  /\ last.op = "upsert_meal"
  /\ last.status = "returned"
  /\ \E day \in DayByDate(db, _ensure_date(last.args.date)) :
       /\ day.id = db.seq["nutrition_days"]
       /\ day.notes = NoneText
       /\ day.id # last.ret
       /\ \E m \in db.meals : m.id = last.ret /\ m.day_id = day.id

\* C6: every log_body_metrics call with a valid date that the engine does
\* not fail returns and has stored a body_metrics row with the returned id
\* and one skinfold row per site, also when the date was logged before.
C6_AlwaysInserts ==
  (/\ last.op = "log_body_metrics"
   /\ DateOk(last.args.date)
   /\ last.fault = 0
   /\ ~last.busy)
    => /\ last.status = "returned"
       /\ \E r \in db.body_metrics : r.id = last.ret
       /\ Cardinality({k \in db.skinfolds : k.body_metrics_id = last.ret})
            = Len(last.args.skinfolds)

MultiStatementWrites ==
  {"log_body_metrics", "upsert_meal", "add_or_update_meal_item",
   "delete_meal", "delete_nutrition_day"}

\* C7: a multi-statement write that raises leaves the store as it was: a
\* step that ends in a raised log_body_metrics, upsert_meal,
\* add_or_update_meal_item, delete_meal or delete_nutrition_day call does
\* not change the store.
C7_RollsBack ==
  [][(last'.op \in MultiStatementWrites /\ last'.status = "raised")
       => db' = db]_vars

\* add_or_update_meal_item failed at its third statement, after it had
\* inserted the day and the meal, and the store holds no day for that date
C7_Witness ==
  /\ last.op = "add_or_update_meal_item"
  /\ last.status = "raised"
  /\ last.fault = 3
  /\ DayByDate(db, _ensure_date(last.args.date)) = {}

MacroFields == {"calories", "protein_g", "carbs_g", "fats_g", "fiber_g"}

\* the sum of one field over a set of rows
RECURSIVE SumOver(_, _)
SumOver(rows, field) ==
  IF rows = {} THEN 0
  ELSE LET r == CHOOSE x \in rows : TRUE
       IN r[field] + SumOver(rows \ {r}, field)

\* C8: get_nutrition_day returns an absent day when the date has no day row;
\* otherwise it returns every meal of the day, each meal's totals are the
\* sums of the macro fields over the stored items of that meal, and the day
\* totals are the sums over the stored items of all meals of the day (all
\* zero when the day has no meals).
C8_Totals ==
  (last.op = "get_nutrition_day" /\ last.status = "returned")
    => LET days == DayByDate(db, _ensure_date(last.args.date))
       IN IF days = {} THEN last.ret = Absent
          ELSE \A day \in days :
            LET meals == {m \in db.meals : m.day_id = day.id}
                items == {i \in db.meal_items :
                            \E m \in meals : m.id = i.meal_id}
            IN /\ last.ret.found
               /\ {last.ret.meals[k].id : k \in DOMAIN last.ret.meals}
                    = {m.id : m \in meals}
               /\ Len(last.ret.meals) = Cardinality(meals)
               /\ \A f \in MacroFields :
                    /\ last.ret.totals[f] = SumOver(items, f)
                    /\ meals = {} => last.ret.totals[f] = 0
                    /\ \A k \in DOMAIN last.ret.meals :
                         last.ret.meals[k].totals[f]
                           = SumOver({i \in db.meal_items :
                                        i.meal_id = last.ret.meals[k].id}, f)

\* a day with two meals of one item each was read back
C8_Witness ==
  /\ last.op = "get_nutrition_day"
  /\ last.status = "returned"
  /\ last.ret # Absent
  /\ Len(last.ret.meals) = 2
  /\ last.ret.totals.calories > 0
  /\ Len(last.ret.meals[1].items) = 1
  /\ Len(last.ret.meals[2].items) = 1

-----------------------------------------------------------------------------
(* Date ranges and search *)

\* workouts logged at the last second of day 1, within that second, at the
\* first second of day 2 and with a date only, then queried by day
NextDates ==
  \/ LogWorkout({DT("datetime", 1, LastSecond, 0, 0),
                 DT("fraction", 1, LastSecond, 500000, 0),
                 DT("datetime", 2, 0, 0, 0), DT("date", 1, 0, 0, 0)},
                {NoneText}, {PyNone}, {NoneText}, {<<>>}, {0, 1})
  \/ GetWorkouts({NoDate, OnDay(1), OnDay(2)}, {NoneText}, {NoneText},
                 {20}, {0})
  \/ CollectGarbage

SpecDates == Init /\ [][NextDates]_vars

\* records with and without matching notes in the three domains, searched
\* under limits from -1 up
NextSearch ==
  \/ LogWorkout({DT("datetime", 1, Noon, 0, 0)}, {NoneText}, {PyNone},
                {<<"p", "a">>}, {<<>>}, {0})
  \/ UpsertNutritionDay({OnDay(1)}, {<<"p", "a">>, <<"b">>}, {0})
  \/ LogBodyMetrics(Days, {<<>>}, {<<"p", "a">>}, {0})
  \/ SearchLogs({<<"p">>},
                {{}, {"nutrition"}, {"workout", "body"}, {"nutrition", "body"}},
                {NoDate, BadDate}, (-1)..MaxLimit)
  \/ CollectGarbage

SpecSearch == Init /\ [][NextSearch]_vars

\* C9: the date bounds of get_workouts are whole days: the workouts returned
\* (no other filter, limit above the number of workouts) are exactly those
\* whose stored date_time falls on a calendar day d with from_date <= d and
\* d <= to_date, for the bounds that are given.
C9_WholeDayRange ==
  (last.op = "get_workouts" /\ last.status = "returned")
    => {last.ret[i].id : i \in DOMAIN last.ret}
         = {w.id : w \in {x \in db.workouts :
              /\ last.args.from_date.fmt # "none"
                   => _ensure_date(last.args.from_date) <= x.date_time[1]
              /\ last.args.to_date.fmt # "none"
                   => x.date_time[1] <= _ensure_date(last.args.to_date)}}

Min(a, b) == IF a < b THEN a ELSE b

\* the records of one domain that match a search
DomainMatches(d, domain, args) ==
  IF domain = "workout"
  THEN WorkoutMatches(d, args.query, args.from_date, args.to_date)
  ELSE NotesMatches(IF domain = "nutrition" THEN d.nutrition_days
                    ELSE d.body_metrics,
                    args.query, args.from_date, args.to_date)

\* the number of records of the requested domains that match a search
TotalMatches(d, args) ==
  SumSeq([i \in 1..3 |->
    IF <<"workout", "nutrition", "body">>[i]
         \in EffectiveDomains(args.domains)
    THEN Cardinality(DomainMatches(d, <<"workout", "nutrition", "body">>[i],
                                   args))
    ELSE 0])

\* every result carries the tag of a requested domain and is a matching
\* record of that domain's table, and no record is returned twice
ResultsTagged(d, args, ret) ==
  /\ \A i \in DOMAIN ret :
       /\ ret[i].domain \in EffectiveDomains(args.domains)
       /\ \E r \in DomainMatches(d, ret[i].domain, args) :
            r.id = ret[i].record.id
  /\ \A i, j \in DOMAIN ret :
       (/\ ret[i].domain = ret[j].domain
        /\ ret[i].record.id = ret[j].record.id) => i = j

\* C10 as stated: search_logs keeps one result budget for every limit: the
\* number of results is the smaller of limit and the number of matching
\* records of the requested domains, never above limit, and every result
\* carries the tag of a requested domain.
C10_AnyLimit ==
  (last.op = "search_logs" /\ last.status = "returned")
    => /\ Len(last.ret) = Min(last.args.limit, TotalMatches(db, last.args))
       /\ Len(last.ret) <= last.args.limit
       /\ ResultsTagged(db, last.args, last.ret)

\* C10: search_logs keeps one result budget for every limit of zero or
\* more: the number of results is the smaller of limit and the number of
\* matching records of the requested domains, never above limit; every
\* result carries the tag of a requested domain and is a matching record of
\* that domain's table, no record twice.  Under a negative limit only the
\* workout domain is queried, uncapped, and the last -limit matching
\* workouts are dropped.
C10_ResultBudget ==
  (last.op = "search_logs" /\ last.status = "returned")
    => /\ ResultsTagged(db, last.args, last.ret)
       /\ last.args.limit >= 0
            => /\ Len(last.ret)
                    = Min(last.args.limit, TotalMatches(db, last.args))
               /\ Len(last.ret) <= last.args.limit
       /\ last.args.limit < 0
            => LET workouts == IF "workout"
                                    \in EffectiveDomains(last.args.domains)
                               THEN Cardinality(DomainMatches(db, "workout",
                                                              last.args))
                               ELSE 0
               IN /\ Len(last.ret)
                       = IF workouts + last.args.limit > 0
                         THEN workouts + last.args.limit ELSE 0
                  /\ \A i \in DOMAIN last.ret :
                       last.ret[i].domain = "workout"

\* a search over all domains returned limit results, from two domains,
\* while more records matched
C10_Witness ==
  /\ last.op = "search_logs"
  /\ last.status = "returned"
  /\ last.args.limit = 2
  /\ Len(last.ret) = 2
  /\ last.ret[1].domain # last.ret[2].domain
  /\ Cardinality(DomainMatches(db, "workout", last.args))
       + Cardinality(DomainMatches(db, "nutrition", last.args))
       + Cardinality(DomainMatches(db, "body", last.args)) > 2

-----------------------------------------------------------------------------
(* The workout that log_workout returns *)

Warmup(set_index) ==
  [set_index |-> set_index, reps |-> 3, side |-> "left", is_warmup |-> TRUE]

\* the JSON text ["a"]
TagsText == <<"[", Quote, "a", Quote, "]">>

\* workouts logged with tags absent, empty, a list, the JSON text of a list
\* and a str that is no list; sets with and without explicit positions, in
\* and out of order
NextMirror ==
  \/ LogWorkout({DT("datetime", 1, Noon, 0, 0)}, {NoneText},
                {PyNone, PyList(<<>>), PyList(<<PyStr(<<"b">>), PyStr(<<"a">>)>>),
                 PyStr(TagsText), PyStr(<<"a">>)},
                {NoneText},
                {<<ExercisePayload("squat", <<>>),
                   ExercisePayload("row", <<SetPayload(NoneInt, None)>>)>>,
                 <<ExercisePayload("row", <<SetPayload(2, "left"),
                                            Warmup(1)>>)>>,
                 <<ExercisePayload("row", <<Warmup(2),
                                            SetPayload(NoneInt, None)>>)>>,
                 <<ExercisePayload("row", <<SetPayload(0, None),
                                            Warmup(NoneInt)>>)>>},
                {0, 1})
  \/ CollectGarbage

SpecMirror == Init /\ [][NextMirror]_vars

\* the set_index stored for the set payload at position i
StoredSetIndex(payload, i) ==
  IF payload.set_index \in {NoneInt, 0} THEN i ELSE payload.set_index

\* the returned sets are the supplied sets, each once, in set_index order
SetsMirror(given, returned) ==
  /\ Len(returned) = Len(given)
  /\ \A i, j \in DOMAIN returned :
       i < j => returned[i].set_index <= returned[j].set_index
  /\ \E p \in [DOMAIN returned -> DOMAIN given] :
       /\ \A i, j \in DOMAIN returned : p[i] = p[j] => i = j
       /\ \A k \in DOMAIN returned :
            /\ returned[k].set_index = StoredSetIndex(given[p[k]], p[k])
            /\ returned[k].reps = given[p[k]].reps
            /\ returned[k].side = given[p[k]].side
            /\ returned[k].is_warmup
                 = (IF given[p[k]].is_warmup THEN 1 ELSE 0)

\* C11: the workout a returned log_workout yields is the stored one read
\* back and mirrors the input: the supplied exercises in array order with
\* order_index 1..K, for each the supplied sets ordered by set_index, a set
\* without a set_index numbered by its position from 1, is_warmup set only
\* when given true, and tags the supplied list, empty when absent.
C11_Mirrors ==
  (last.op = "log_workout" /\ last.status = "returned")
    => /\ \E w \in db.workouts :
            /\ w.id = last.ret.id
            /\ last.ret \in _hydrate_workout(db, w)
       /\ Len(last.ret.exercises) = Len(last.args.exercises)
       /\ \A i \in DOMAIN last.ret.exercises :
            /\ last.ret.exercises[i].order_index = i
            /\ last.ret.exercises[i].name = last.args.exercises[i].name
            /\ SetsMirror(last.args.exercises[i].sets,
                          last.ret.exercises[i].sets)
       /\ last.ret.tags = IF last.args.tags.t = "none" THEN PyList(<<>>)
                          ELSE _parse_json_array(last.args.tags)

\* a workout was returned whose two sets were supplied in the order 2, 1 and
\* come back in the order 1, 2, with two tags
C11_Witness ==
  /\ last.op = "log_workout"
  /\ last.status = "returned"
  /\ Len(last.ret.tags.v) = 2
  /\ Len(last.ret.exercises) = 1
  /\ Len(last.ret.exercises[1].sets) = 2
  /\ last.args.exercises[1].sets[1].set_index = 2
  /\ last.ret.exercises[1].sets[1].set_index = 1
  /\ last.ret.exercises[1].sets[1].is_warmup = 1


-----------------------------------------------------------------------------
(* The last workout *)

GetLastWorkout(types, tags) ==
  \E workout_type \in types, tag \in tags :
    LET h == get_last_workout(db, Env(0), workout_type, tag)
    IN \E ret \in h.rets :
         /\ Finish("get_last_workout",
                   [workout_type |-> workout_type, tag |-> tag],
                   Env(0), h, ret)
         /\ UNCHANGED pc

\* workouts of one type, tagged or not, on two days, and the last one asked
\* for by type, by tag, by both and by neither
NextLast ==
  \/ LogWorkout({DT("datetime", 1, Noon, 0, 0), DT("datetime", 2, 0, 0, 0)},
                {<<"a">>},
                {PyNone, PyList(<<PyStr(<<"a">>)>>)},
                {NoneText}, {<<GoodExercise>>}, {0, 1})
  \/ GetLastWorkout({NoneText, <<>>, <<"a">>, <<"b">>}, {NoneText, <<>>, <<"a">>})
  \/ CollectGarbage

SpecLast == Init /\ [][NextLast]_vars

\* C12: get_last_workout without workout_type and without tag raises a
\* validation error, opens no connection and leaves the store as it was;
\* with a filter it returns, leaves the store as it was, and yields the
\* hydrated workout whose date_time is the greatest among the workouts that
\* pass every given filter, or no workout when none passes.
C12_LastWorkout ==
  [][last'.op = "get_last_workout"
       => /\ db' = db
          /\ (/\ last'.args.workout_type \in {NoneText, <<>>}
              /\ last'.args.tag \in {NoneText, <<>>})
               => /\ last'.status = "raised"
                  /\ last'.err = "ValueError"
                  /\ ~last'.open
                  /\ leaked'.n <= leaked.n
          /\ ~(/\ last'.args.workout_type \in {NoneText, <<>>}
               /\ last'.args.tag \in {NoneText, <<>>})
               => LET matching ==
                        {w \in db.workouts :
                           WorkoutFilter(w, NoDate, NoDate,
                                         last'.args.workout_type,
                                         last'.args.tag)}
                  IN /\ last'.status = "returned"
                     /\ matching = {} => last'.ret = PyNone
                     /\ matching # {}
                          => \E w \in matching :
                               /\ \A x \in matching :
                                    TextLeq(x.date_time, w.date_time)
                               /\ last'.ret \in _hydrate_workout(db, w)]_vars

\* the last workout of type "a" was returned: the one of day 2, logged
\* before the one of day 1
C12_Witness ==
  /\ last.op = "get_last_workout"
  /\ last.status = "returned"
  /\ last.args.workout_type = <<"a">>
  /\ last.ret # PyNone
  /\ last.ret.date_time[1] = 2
  /\ \E w \in db.workouts :
       /\ w.workout_type = <<"a">>
       /\ w.date_time[1] = 1
       /\ w.id > last.ret.id


-----------------------------------------------------------------------------
(* Deleting a nutrition day *)

\* two days with meals and items, a workout and a body-metrics record, and
\* days deleted with and without cascade
NextCascade ==
  \/ AddOrUpdateMealItem(Days, {"lunch", "dinner"}, {Apple}, {NoneInt}, {0})
  \/ LogWorkout({DT("datetime", 1, Noon, 0, 0)}, {NoneText}, {PyNone},
                {NoneText}, {<<GoodExercise>>}, {0})
  \/ LogBodyMetrics({OnDay(1)}, {TwoSkinfolds}, {NoneText}, {0})
  \/ DeleteNutritionDay(Days \cup {BadDate}, {0, 1})
  \/ CollectGarbage

SpecCascade == Init /\ [][NextCascade]_vars

\* C13: a delete_nutrition_day(date, cascade=true) that returned has removed
\* the day row of the date, the meals of that day and the items of those
\* meals and nothing else: every other day, meal and item, every workout,
\* exercise and set and every body-metrics and skinfold row is as before.
\* The items go first (the meals and the day still there), then the meals
\* (the day still there), then the day.  The flag returned tells whether
\* the date had a day row.
C13_CascadeDelete ==
  [][(/\ last'.op = "delete_nutrition_day"
      /\ last'.status = "returned"
      /\ last'.args.cascade
      /\ leaked'.n >= leaked.n)
       => LET day == _ensure_date(last'.args.date)
              days == DayByDate(db, day)
              meals == {m \in db.meals : \E x \in days : x.id = m.day_id}
              items == {i \in db.meal_items :
                          \E m \in meals : m.id = i.meal_id}
              steps == DeleteDaySteps(get_connection(db, Env(0)), day, TRUE)
          IN /\ DayByDate(db', day) = {}
             /\ db'.nutrition_days = db.nutrition_days \ days
             /\ db'.meals = db.meals \ meals
             /\ db'.meal_items = db.meal_items \ items
             /\ last'.ret = (days # {})
             /\ \A t \in {"workouts", "exercises", "sets", "body_metrics",
                           "skinfolds"} : db'[t] = db[t]
             /\ steps[1].work.meal_items = db.meal_items \ items
             /\ steps[1].work.meals = db.meals
             /\ steps[2].work.meals = db.meals \ meals
             /\ steps[2].work.nutrition_days = db.nutrition_days
             /\ steps[3].work.nutrition_days = db'.nutrition_days]_vars

\* a day with a meal and an item was deleted with cascade and reported as
\* deleted, while another day keeps its meal and item next to a workout and
\* a body-metrics record
C13_Witness ==
  /\ last.op = "delete_nutrition_day"
  /\ last.status = "returned"
  /\ last.args.cascade
  /\ last.ret = TRUE
  /\ db.seq["meal_items"] = 2
  /\ Cardinality(db.nutrition_days) = 1
  /\ Cardinality(db.meals) = 1
  /\ Cardinality(db.meal_items) = 1
  /\ db.workouts # {}
  /\ db.skinfolds # {}


-----------------------------------------------------------------------------
(* Deleting workout rows *)

DeleteRow(tables, faults) ==
  \E table \in tables, id \in 1..MaxId, fault \in faults :
    LET h == delete_row(db, Env(fault), table, id)
    IN \E ret \in h.rets :
         /\ Finish("delete_row", [table |-> table, id |-> id],
                   Env(fault), h, ret)
         /\ UNCHANGED pc

\* workouts with no, one and two exercises are logged and deleted
NextDelete ==
  \/ LogWorkout({DT("datetime", 1, Noon, 0, 0)}, {NoneText}, {PyNone},
                {NoneText},
                {<<>>, <<GoodExercise>>,
                 <<GoodExercise, ExercisePayload("row", <<>>)>>,
                 <<ExercisePayload("row", <<SetPayload(NoneInt, None),
                                            SetPayload(NoneInt, "left")>>)>>},
                {0})
  \/ DeleteRow({"workouts"}, {0, 1})
  \/ CollectGarbage

SpecDelete == Init /\ [][NextDelete]_vars

\* C14: deleting a workout row that owns K exercises and M sets removes
\* exactly that row, those K exercises and those M sets, 1 + K + M rows of the
\* three tables; afterwards no exercise references the workout and no set
\* references one of its exercises, and every other row is as before.
C14_WorkoutCascade ==
  [][(/\ last'.op = "delete_row"
      /\ last'.args.table = "workouts"
      /\ last'.status = "returned"
      /\ leaked'.n >= leaked.n)
       => LET ws == {w \in db.workouts : w.id = last'.args.id}
              es == {e \in db.exercises : e.workout_id = last'.args.id}
              ss == {r \in db.sets : \E e \in es : e.id = r.exercise_id}
              rows(d) == Cardinality(d.workouts) + Cardinality(d.exercises)
                           + Cardinality(d.sets)
          IN /\ db'.workouts = db.workouts \ ws
             /\ db'.exercises = db.exercises \ es
             /\ db'.sets = db.sets \ ss
             /\ ws # {} => rows(db) - rows(db')
                             = 1 + Cardinality(es) + Cardinality(ss)
             /\ \A e \in db'.exercises : e.workout_id # last'.args.id
             /\ \A r \in db'.sets : \A e \in es : r.exercise_id # e.id
             /\ \A t \in Tables \ {"workouts", "exercises", "sets"} :
                  db'[t] = db[t]]_vars

\* a workout with an exercise and a set was deleted and another workout
\* keeps its exercise and set
C14_Witness ==
  /\ last.op = "delete_row"
  /\ last.args.table = "workouts"
  /\ last.status = "returned"
  /\ db.seq["workouts"] = 2
  /\ db.seq["sets"] = 2
  /\ Cardinality(db.workouts) = 1
  /\ Cardinality(db.exercises) = 1
  /\ Cardinality(db.sets) = 1


-----------------------------------------------------------------------------
(* Tag serialisation on its own *)

MaxTags == 2        \* longest tag list serialised
MaxTagLen == 1      \* longest tag
MaxTextLen == 3     \* longest stored tags text deserialised

TagAlphabet == {"a", Quote, Backslash, ",", "]"}
TextAlphabet == {"[", "]", Quote, "1", ",", "{", "}"}

StringsUpTo(alphabet, n) == UNION {[1..k -> alphabet] : k \in 0..n}

\* the tag lists given to serialize_tags, and None
TagInputs ==
  {PyNone} \cup
  {PyList(items) :
     items \in UNION {[1..k -> {PyStr(x) :
                                  x \in StringsUpTo(TagAlphabet, MaxTagLen)}] :
                        k \in 0..MaxTags}}

\* the texts a tags column may hold, and NULL
StoredTexts == {NoneText} \cup StringsUpTo(TextAlphabet, MaxTextLen)

Given(op, args) == [NoCall EXCEPT !.op = op, !.args = args]

InitTags ==
  /\ db = EmptyStore
  /\ leaked = [n |-> 0, lock |-> FALSE]
  /\ pc = [p \in Procs |-> Idle]
  /\ assigned = {}
  /\ \E tags \in TagInputs : last = Given("input", [tags |-> tags])

InitTexts ==
  /\ db = EmptyStore
  /\ leaked = [n |-> 0, lock |-> FALSE]
  /\ pc = [p \in Procs |-> Idle]
  /\ assigned = {}
  /\ \E text \in StoredTexts : last = Given("stored", [text |-> text])

\* serialize_tags applied to the input
SerializeTags ==
  /\ last.op = "input"
  /\ last' = [Given("serialize_tags", last.args) EXCEPT
                !.status = "returned",
                !.ret = serialize_tags(last.args.tags)]
  /\ UNCHANGED <<db, leaked, pc, assigned>>

\* deserialize_tags applied to what serialize_tags returned
DeserializeSerialized ==
  /\ last.op = "serialize_tags"
  /\ last' = [Given("deserialize_tags",
                    [tags |-> last.args.tags, text |-> last.ret]) EXCEPT
                !.status = "returned",
                !.ret = deserialize_tags(last.ret)]
  /\ UNCHANGED <<db, leaked, pc, assigned>>

\* deserialize_tags applied to a stored text
DeserializeStored ==
  /\ last.op = "stored"
  /\ last' = [Given("deserialize_tags", last.args) EXCEPT
                !.status = "returned",
                !.ret = deserialize_tags(last.args.text)]
  /\ UNCHANGED <<db, leaked, pc, assigned>>

NextTags == SerializeTags \/ DeserializeSerialized

SpecTags == InitTags /\ [][NextTags]_vars

NextTexts == DeserializeStored

SpecTexts == InitTexts /\ [][NextTexts]_vars

\* C15 as stated: deserialize_tags(serialize_tags(T)) is T for every list
\* of strings T and for None, and serialize_tags(None) is None.
C15_RoundTripAll ==
  /\ (last.op = "serialize_tags" /\ last.args.tags = PyNone)
       => last.ret = NoneText
  /\ last.op = "deserialize_tags" => last.ret = last.args.tags

\* C15: deserialize_tags(serialize_tags(T)) is T for every list of strings
\* T, the empty list included, with the order and the strings kept;
\* serialize_tags(None) is None, not the text of an empty list, and
\* deserialize_tags of it is the empty list.
C15_RoundTrip ==
  /\ (last.op = "serialize_tags" /\ last.args.tags = PyNone)
       => last.ret = NoneText
  /\ (last.op = "serialize_tags" /\ last.args.tags # PyNone)
       => last.ret # NoneText
  /\ last.op = "deserialize_tags"
       => last.ret = IF last.args.tags = PyNone THEN PyList(<<>>)
                     ELSE last.args.tags

\* a list of two tags, one of them a quote, came back as it was given
C15_Witness ==
  /\ last.op = "deserialize_tags"
  /\ last.args.tags # PyNone
  /\ Len(last.args.tags.v) = 2
  /\ last.args.tags.v[1] = PyStr(<<Quote>>)
  /\ last.args.tags.v[2] = PyStr(<<"]">>)
  /\ last.ret = last.args.tags

\* C16: deserialize_tags returns the empty list for every stored text that
\* is not the encoding of a list of strings (NULL, empty, malformed, or the
\* encoding of a value that is no list), and a list for every text.
C16_EmptyOnCorrupt ==
  last.op = "deserialize_tags"
    => /\ last.ret.t = "list"
       /\ ~(/\ last.args.text # NoneText
            /\ json_loads(last.args.text).ok
            /\ json_loads(last.args.text).val.t = "list"
            /\ \A i \in DOMAIN json_loads(last.args.text).val.v :
                 json_loads(last.args.text).val.v[i].t = "str")
            => last.ret = PyList(<<>>)


-----------------------------------------------------------------------------
(* Adding and updating meal items *)

\* items added to new and existing meals and updated by id, next to a meal
\* that upsert_meal created with order_index 1
NextItems ==
  \/ AddOrUpdateMealItem({OnDay(1)}, {"lunch", "dinner"}, {Apple, Bread},
                         {NoneInt, 0, 1, 2}, {0, 3})
  \/ UpsertMeal({OnDay(1)}, {"lunch"}, {1}, {0})
  \/ CollectGarbage

SpecItems == Init /\ [][NextItems]_vars

-----------------------------------------------------------------------------
(* What search_logs matches *)

\* records whose texts hold the query in the same and in another letter
\* case, searched with queries in lower case, in upper case and with "_"
NextFold ==
  \/ LogWorkout({DT("datetime", 1, Noon, 0, 0)}, {<<"P">>},
                {PyList(<<PyStr(<<"a">>)>>)},
                {<<"b", "p">>}, {<<>>}, {0})
  \/ UpsertNutritionDay({OnDay(1)}, {<<"P", "a">>, NoneText}, {0})
  \/ LogBodyMetrics({OnDay(1)}, {<<>>}, {<<"a", "p">>}, {0})
  \/ SearchLogs({<<"p">>, <<"P", "A">>, <<"_", "a">>, <<"a">>},
                {{}, {"nutrition"}}, {NoDate, OnDay(2), BadDate}, {20})
  \/ CollectGarbage

SpecFold == Init /\ [][NextFold]_vars

\* the texts search_logs looks at in a record of a domain
SearchedTexts(domain, r) ==
  IF domain = "workout" THEN {r.notes, r.workout_type, r.tags} ELSE {r.notes}

SearchedTable(d, domain) ==
  CASE domain = "workout" -> d.workouts
    [] domain = "nutrition" -> d.nutrition_days
    [] OTHER -> d.body_metrics

\* the record is not before from_date
FromDateOk(domain, r, from_date) ==
  from_date.fmt = "none"
    \/ (IF domain = "workout" THEN r.date_time[1] ELSE r.date)
          >= _ensure_date(from_date)

\* q occurs in text, character for character
ExactContains(text, q) ==
  /\ text # NoneText
  /\ \E i \in 1..(Len(text) - Len(q) + 1) : SubSeq(text, i, i + Len(q) - 1) = q

\* two characters that are equal or the two cases of one ASCII letter
SameLetter(a, b) ==
  a = b \/ {a, b} \in {{"a", "A"}, {"b", "B"}, {"l", "L"}, {"p", "P"}}

\* q occurs in text up to ASCII letter case, "_" standing for any character
FoldContains(text, q) ==
  /\ text # NoneText
  /\ \E i \in 1..(Len(text) - Len(q) + 1) :
       \A k \in 1..Len(q) : q[k] = "_" \/ SameLetter(q[k], text[i + k - 1])

\* the <<domain, id>> pairs of a result list
Found(ret) == {<<ret[i].domain, ret[i].record.id>> : i \in DOMAIN ret}

\* the <<domain, id>> pairs of the records of the requested domains, not
\* before from_date, one of whose searched texts satisfies contains
Expected(d, args, contains(_, _)) ==
  UNION {{<<domain, r.id>> :
            r \in {x \in SearchedTable(d, domain) :
                     /\ FromDateOk(domain, x, args.from_date)
                     /\ \E text \in SearchedTexts(domain, x) :
                          contains(text, args.query)}} :
         domain \in EffectiveDomains(args.domains)}

\* C18 as stated: search_logs (limit above the number of records) returns
\* exactly the records of the requested domains within the date range one
\* of whose free-text fields holds the query as a literal character
\* sequence in the same letter case.
C18_CaseSensitive ==
  (last.op = "search_logs" /\ last.status = "returned")
    => Found(last.ret) = Expected(db, last.args, ExactContains)

\* C18: search_logs (limit above the number of records) returns exactly the
\* records of the requested domains within the date range one of whose
\* free-text fields holds the query without regard to ASCII letter case,
\* a "_" of the query standing for any one character.
C18_FoldedContainment ==
  (last.op = "search_logs" /\ last.status = "returned")
    => Found(last.ret) = Expected(db, last.args, FoldContains)

\* the query "PA" found a nutrition day whose notes are "Pa" and a body
\* record whose notes are "ap" was not found
C18_Witness ==
  /\ last.op = "search_logs"
  /\ last.status = "returned"
  /\ last.args.query = <<"P", "A">>
  /\ last.args.domains = {}
  /\ Found(last.ret) = {<<"nutrition", 1>>}
  /\ \E r \in db.nutrition_days : r.id = 1 /\ r.notes = <<"P", "a">>
  /\ \E r \in db.body_metrics : r.notes = <<"a", "p">>
  /\ db.workouts # {}


-----------------------------------------------------------------------------
(* The tag filter *)

Leg == <<"l", "e", "g">>
Legs == <<"l", "e", "g", "s">>

\* workouts without tags, tagged "legs", "leg", "a" and "Leg", and with a
\* tag that is a double quote; workouts asked for by the tags "leg", "Leg"
\* and the double quote
NextTagFilter ==
  \/ LogWorkout({DT("datetime", 1, Noon, 0, 0)}, {<<"a">>},
                {PyNone, PyList(<<PyStr(Legs)>>), PyList(<<PyStr(Leg)>>),
                 PyList(<<PyStr(<<"a">>), PyStr(<<"L", "e", "g">>)>>),
                 PyList(<<PyStr(<<Quote>>)>>)},
                {NoneText}, {<<>>}, {0})
  \/ GetWorkouts({NoDate, BadDate}, {NoneText},
                 {Leg, <<"L", "e", "g">>, <<Quote>>}, {20}, {0})
  \/ GetLastWorkout({NoneText}, {Leg, <<Quote>>})
  \/ CollectGarbage

SpecTagFilter == Init /\ [][NextTagFilter]_vars

\* the workouts whose stored tags text satisfies pass
Passing(d, pass(_)) == {w.id : w \in {x \in d.workouts : pass(x.tags)}}

\* the workouts whose tag list holds the text tag as an element
TaggedWith(d, tag) ==
  Passing(d, LAMBDA text :
               \E i \in DOMAIN deserialize_tags(text).v :
                 deserialize_tags(text).v[i] = PyStr(tag))

\* what the tag filter lets through according to pass: get_workouts (limit
\* above the number of workouts) returns exactly the passing workouts, and
\* get_last_workout returns a passing workout, or none when none passes
FilteredBy(pass(_)) ==
  /\ (/\ last.op = "get_workouts"
      /\ last.status = "returned")
       => {last.ret[i].id : i \in DOMAIN last.ret} = Passing(db, pass)
  /\ (/\ last.op = "get_last_workout"
      /\ last.status = "returned")
       => IF Passing(db, pass) = {} THEN last.ret = PyNone
          ELSE last.ret # PyNone /\ last.ret.id \in Passing(db, pass)

\* the workouts the call returned
Returned ==
  IF last.op = "get_workouts" THEN {last.ret[i].id : i \in DOMAIN last.ret}
  ELSE IF last.ret = PyNone THEN {} ELSE {last.ret.id}

\* json.dumps writes the tag as it is between double quotes
WrittenAsIs(tag) == \A i \in DOMAIN tag : tag[i] \notin {Quote, Backslash}

\* C19 as stated: a workout passes the tag filter exactly when its stored
\* tags text contains the tag as a substring, and every workout whose tag
\* list holds the tag as an element passes.
C19_BareSubstring ==
  /\ FilteredBy(LAMBDA text : ExactContains(text, last.args.tag))
  /\ (/\ last.op = "get_workouts"
      /\ last.status = "returned")
       => TaggedWith(db, last.args.tag) \subseteq Returned

\* C19: a workout passes the tag filter exactly when its stored tags text
\* contains the tag between two double quotes, without regard to ASCII
\* letter case; every workout whose tag list holds the tag as an element
\* passes when the tag has no double quote and no backslash.
C19_QuotedTag ==
  /\ FilteredBy(LAMBDA text :
                  FoldContains(text,
                               <<Quote>> \o last.args.tag \o <<Quote>>))
  /\ (/\ last.op = "get_workouts"
      /\ last.status = "returned"
      /\ WrittenAsIs(last.args.tag))
       => TaggedWith(db, last.args.tag) \subseteq Returned

\* get_workouts with tag "leg" returned the workout tagged "leg" and left
\* out the workout tagged "legs"
C19_Witness ==
  /\ last.op = "get_workouts"
  /\ last.status = "returned"
  /\ last.args.tag = Leg
  /\ \E w \in db.workouts :
       /\ w.tags = json_dumps(PyList(<<PyStr(Legs)>>))
       /\ w.id \notin Returned
  /\ \E w \in db.workouts :
       /\ w.tags = json_dumps(PyList(<<PyStr(Leg)>>))
       /\ w.id \in Returned


-----------------------------------------------------------------------------
(* Positions after deletions *)

\* workouts with and without an exercise are logged, exercises and sets are
\* appended, and exercises and sets are deleted
NextPositions ==
  \/ LogWorkout({DT("datetime", 1, Noon, 0, 0)}, {NoneText}, {PyNone},
                {NoneText}, {<<>>, <<GoodExercise>>}, {0})
  \/ AddExercise
  \/ AddSet
  \/ DeleteRow({"exercises", "sets"}, {0})
  \/ CollectGarbage

SpecPositions == Init /\ [][NextPositions]_vars

\* the order_index of the exercise or the set_index of the set with this id
PositionOf(d, table, id) ==
  IF table = "exercises"
  THEN (CHOOSE e \in d.exercises : e.id = id).order_index
  ELSE (CHOOSE r \in d.sets : r.id = id).set_index

\* the step is a call of op that returned
Appends(op) ==
  /\ last'.op = op
  /\ last'.status = "returned"
  /\ leaked'.n >= leaked.n
  /\ db' # db

\* C20 as stated: the position add_exercise or add_set gives is strictly
\* greater than every position a child of that parent has held before,
\* whether that child is still there or has been deleted.
C20_NeverReused ==
  [][/\ Appends("add_exercise")
          => \A a \in assigned :
               (a.table = "exercises" /\ a.parent = last'.args.workout_id)
                 => a.position < PositionOf(db', "exercises", last'.ret)
     /\ Appends("add_set")
          => \A a \in assigned :
               (a.table = "sets" /\ a.parent = last'.args.exercise_id)
                 => a.position < PositionOf(db', "sets", last'.ret)]_vars

\* C20 without the deleted children: the position add_exercise or add_set
\* gives is strictly greater than the position of every child the parent
\* has when the call is made, and a deletion leaves the positions of the
\* remaining children as they were.
C20_AboveCurrent ==
  [][/\ Appends("add_exercise")
          => \A a \in Positions(db) :
               (a.table = "exercises" /\ a.parent = last'.args.workout_id)
                 => a.position < PositionOf(db', "exercises", last'.ret)
     /\ Appends("add_set")
          => \A a \in Positions(db) :
               (a.table = "sets" /\ a.parent = last'.args.exercise_id)
                 => a.position < PositionOf(db', "sets", last'.ret)
     /\ (last'.op = "delete_row" /\ leaked'.n >= leaked.n)
          => /\ db'.exercises \subseteq db.exercises
             /\ db'.sets \subseteq db.sets]_vars

\* a position was held, its child was deleted, and the position is held
\* again by a newer child of the same parent
C20_Reused ==
  /\ last.op = "add_set"
  /\ last.status = "returned"
  /\ \E r \in db.sets :
       /\ r.id = last.ret
       /\ r.id = 2
       /\ r.set_index = 1
       /\ r.exercise_id = last.args.exercise_id
       /\ \A x \in db.sets : x.exercise_id = r.exercise_id => x = r


-----------------------------------------------------------------------------
(* Exercise positions under interleaved calls *)

\* workouts logged without and with an exercise, and callers whose
\* add_exercise calls interleave
NextInterleaved ==
  \/ LogWorkout({DT("datetime", 1, Noon, 0, 0)}, {NoneText}, {PyNone},
                {NoneText}, {<<>>, <<ExercisePayload("squat", <<>>)>>},
                {0, 1})
  \/ \E p \in Procs : AddExerciseSelect(p)
  \/ \E p \in Procs : AddExerciseInsert(p)
  \/ CollectGarbage

SpecInterleaved == Init /\ [][NextInterleaved]_vars

\* C21: no two exercises of one workout have the same order_index, and
\* every order_index is at least 1.
C21_UniqueOrder ==
  \A e1 \in db.exercises :
    /\ e1.order_index >= 1
    /\ \A e2 \in db.exercises :
         (e1.workout_id = e2.workout_id /\ e1.order_index = e2.order_index)
           => e1 = e2


-----------------------------------------------------------------------------
(* The position of an appended child *)

\* workouts logged without exercises and with an exercise whose set has an
\* explicit set_index, and exercises and sets appended one call at a time
NextOrdered ==
  \/ LogWorkout({DT("datetime", 1, Noon, 0, 0)}, {NoneText}, {PyNone},
                {NoneText},
                {<<>>, <<ExercisePayload("squat", <<SetPayload(2, None)>>)>>},
                {0})
  \/ AddExercise
  \/ AddSet
  \/ CollectGarbage

SpecOrdered == Init /\ [][NextOrdered]_vars

\* position is 1 when there are no positions yet and otherwise one more
\* than one of them and greater than all of them
OneAboveAll(position, positions) ==
  IF positions = {} THEN position = 1
  ELSE /\ position - 1 \in positions
       /\ \A q \in positions : q < position

\* C22: run one call at a time, a returned add_exercise stores one new
\* exercise whose order_index is the largest order_index of the workout
\* plus 1, a returned add_set stores one new set whose set_index is the
\* largest set_index of the exercise plus 1, the first child getting 1, and
\* the hydrated child list ends with the new child.
C22_AppendsLast ==
  [][/\ Appends("add_exercise")
          => \E e \in db'.exercises :
               /\ e.id = last'.ret
               /\ e.workout_id = last'.args.workout_id
               /\ db'.exercises = db.exercises \cup {e}
               /\ db'.sets = db.sets
               /\ OneAboveAll(e.order_index,
                              {x.order_index :
                                 x \in {y \in db.exercises :
                                          y.workout_id = e.workout_id}})
               /\ \A w \in db'.workouts :
                    w.id = e.workout_id
                      => \A h \in _hydrate_workout(db', w) :
                           h.exercises[Len(h.exercises)].id = e.id
     /\ Appends("add_set")
          => \E r \in db'.sets :
               /\ r.id = last'.ret
               /\ r.exercise_id = last'.args.exercise_id
               /\ db'.sets = db.sets \cup {r}
               /\ db'.exercises = db.exercises
               /\ OneAboveAll(r.set_index,
                              {x.set_index :
                                 x \in {y \in db.sets :
                                          y.exercise_id = r.exercise_id}})
               /\ \A s \in _load_sets(db', r.exercise_id) :
                    s[Len(s)] = r]_vars

\* a set was appended at position 3 to an exercise logged with one set whose
\* explicit set_index is 2
C22_Witness ==
  /\ last.op = "add_set"
  /\ last.status = "returned"
  /\ \E r \in db.sets :
       /\ r.id = last.ret
       /\ r.set_index = 3
       /\ \E x \in db.sets :
            x.exercise_id = r.exercise_id /\ x.id < r.id /\ x.set_index = 2
       /\ Cardinality({x \in db.sets : x.exercise_id = r.exercise_id}) = 2


-----------------------------------------------------------------------------
(* The order of the domains in a search *)

\* one matching record at most in the nutrition and body domains, matching
\* workouts, and searches over all domains, over the two later ones and over
\* the last one, under limits from -1 up
NextPriority ==
  \/ LogWorkout({DT("datetime", 1, Noon, 0, 0)}, {NoneText}, {PyNone},
                {<<"p">>}, {<<>>}, {0})
  \/ UpsertNutritionDay({OnDay(1)}, {<<"p">>}, {0})
  \/ LogBodyMetrics({OnDay(1)}, {<<>>}, {<<"p">>}, {0})
  \/ SearchLogs({<<"p">>}, {{}, {"nutrition", "body"}, {"body"}},
                {NoDate, BadDate}, (-1)..MaxLimit)
  \/ CollectGarbage

SpecPriority == Init /\ [][NextPriority]_vars

\* the place of a domain in the order in which search_logs queries them
Rank(domain) ==
  CASE domain = "workout" -> 1 [] domain = "nutrition" -> 2 [] OTHER -> 3

\* the number of matching records of the requested domains that
\* search_logs queries before domain
EarlierMatches(d, args, domain) ==
  SumSeq([i \in 1..3 |->
    IF /\ i < Rank(domain)
       /\ <<"workout", "nutrition", "body">>[i]
            \in EffectiveDomains(args.domains)
    THEN Cardinality(DomainMatches(d, <<"workout", "nutrition", "body">>[i],
                                   args))
    ELSE 0])

\* C23: in what search_logs returns, workout results precede nutrition
\* results and nutrition results precede body results; a nutrition or body
\* result is returned only when the requested domains queried before it
\* have fewer than limit matching records together; and a call whose limit
\* leaves nothing to query (limit of zero or less, workouts not requested)
\* issues no query: it returns no results and does not even parse its
\* dates.
C23_DomainPriority ==
  last.op = "search_logs"
    => /\ last.status = "returned"
            => /\ \A i, j \in DOMAIN last.ret :
                    i < j => Rank(last.ret[i].domain)
                               <= Rank(last.ret[j].domain)
               /\ \A i \in DOMAIN last.ret :
                    last.ret[i].domain # "workout"
                      => EarlierMatches(db, last.args, last.ret[i].domain)
                           < last.args.limit
       /\ (/\ "workout" \notin EffectiveDomains(last.args.domains)
           /\ last.args.limit <= 0)
            => last.status = "returned" /\ last.ret = <<>>

\* a search over all domains with limit 2 returned a workout and then a
\* nutrition day, and no body record although one matches
C23_Witness ==
  /\ last.op = "search_logs"
  /\ last.status = "returned"
  /\ last.args.limit = 2
  /\ last.args.domains = {}
  /\ Len(last.ret) = 2
  /\ last.ret[1].domain = "workout"
  /\ last.ret[2].domain = "nutrition"
  /\ DomainMatches(db, "body", last.args) # {}


-----------------------------------------------------------------------------
(* What ensuring a day and a meal leaves alone *)

\* days with notes, meals with an order_index and items on two dates; items
\* added and updated by id under either date
NextFrame ==
  \/ UpsertNutritionDay({OnDay(1)}, {<<"b">>}, {0})
  \/ UpsertMeal(Days, {"lunch"}, {1}, {0})
  \/ AddOrUpdateMealItem(Days, {"lunch"}, {Apple, Bread}, {NoneInt, 1}, {0, 1})
  \/ CollectGarbage

SpecFrame == Init /\ [][NextFrame]_vars

\* the step is a call of upsert_meal or add_or_update_meal_item
EnsuringCall ==
  /\ last'.op \in {"upsert_meal", "add_or_update_meal_item"}
  /\ leaked'.n >= leaked.n

\* the date of the day that owns the meal with this id
DateOfMeal(d, meal_id) ==
  {x.date : x \in {y \in d.nutrition_days :
                     \E m \in d.meals : m.id = meal_id /\ m.day_id = y.id}}

\* the existing days keep their notes, the existing meals their order_index
\* (but for the meal upsert_meal is given), and every item but the one
\* add_or_update_meal_item is told to update stays as it was
EnsuredRowsKept ==
  /\ db.nutrition_days \subseteq db'.nutrition_days
  /\ \A m \in db.meals :
       (\/ last'.op = "add_or_update_meal_item"
        \/ m.name # last'.args.name
        \/ _ensure_date(last'.args.date) \notin DateOfMeal(db, m.id))
         => m \in db'.meals
  /\ \A r \in db.meal_items :
       (\/ last'.op = "upsert_meal"
        \/ r.id # last'.args.item_id)
         => r \in db'.meal_items

\* C24 as stated: upsert_meal and add_or_update_meal_item leave the notes of
\* an existing day and (add_or_update_meal_item) the order_index of an
\* existing meal unchanged, change no meal item other than the one inserted
\* or updated, and change no row of another day.
C24_OtherDaysUntouched ==
  [][EnsuringCall
       => /\ EnsuredRowsKept
          /\ \A r \in db.meal_items :
               _ensure_date(last'.args.date) \notin DateOfMeal(db, r.meal_id)
                 => r \in db'.meal_items]_vars

\* C24 but for the item updated by id: the days, the meals and every item
\* other than the one the call inserts or updates stay as they were.
C24_AllButTheItem == [][EnsuringCall => EnsuredRowsKept]_vars


-----------------------------------------------------------------------------
(* Referential integrity *)

\* no row has been written yet to the tables of the other two families
Untouched(tables) == \A t \in tables : db.seq[t] = 0

\* children appended to parents that exist and that do not, meals and days
\* deleted with and without their children, body metrics with skinfolds;
\* a run writes to the workout tables, to the nutrition tables or to the
\* body tables, which share no row and no key
NextIntegrity ==
  \/ /\ Untouched({"nutrition_days", "body_metrics"})
     /\ LogWorkout({DT("datetime", 1, Noon, 0, 0)}, {NoneText}, {PyNone},
                   {NoneText}, {<<>>}, {0})
  \/ /\ Untouched({"nutrition_days", "body_metrics"})
     /\ AddExercise
  \/ /\ Untouched({"nutrition_days", "body_metrics"})
     /\ AddSet
  \/ /\ Untouched({"workouts", "body_metrics"})
     /\ AddOrUpdateMealItem({OnDay(1)}, {"lunch"}, {Apple}, {NoneInt}, {0})
  \/ /\ Untouched({"workouts", "body_metrics"})
     /\ DeleteMeal({0})
  \/ /\ Untouched({"workouts", "body_metrics"})
     /\ DeleteNutritionDay({OnDay(1)}, {0})
  \/ /\ Untouched({"workouts", "nutrition_days"})
     /\ LogBodyMetrics({OnDay(1)}, {TwoSkinfolds}, {NoneText}, {0})
  \/ CollectGarbage

SpecIntegrity == Init /\ [][NextIntegrity]_vars

-----------------------------------------------------------------------------
(* The ids add_or_update_meal_item returns *)

\* the store holds the item, in the meal, in the day of a returned triple
TripleStored(ret) ==
  \E r \in db.meal_items :
    /\ r.id = ret.item_id
    /\ r.meal_id = ret.meal_id
    /\ \E m \in db.meals : m.id = ret.meal_id /\ m.day_id = ret.day_id

\* C26 as stated: whenever add_or_update_meal_item returns, a meal_items
\* row with the returned item_id exists, its meal_id is the returned
\* meal_id and that meal's day_id is the returned day_id, with or without
\* an item_id in the call.
C26_ConsistentTriple ==
  (last.op = "add_or_update_meal_item" /\ last.status = "returned")
    => TripleStored(last.ret)

\* C26 for the calls without an item_id: the returned triple names the item
\* the call inserted, its meal and its day.
C26_ConsistentWhenInserted ==
  (/\ last.op = "add_or_update_meal_item"
   /\ last.status = "returned"
   /\ last.args.item_id = NoneInt)
    => TripleStored(last.ret)


====
